---- MODULE Spec2Model ----
(***************************************************************************)
(* A model of the Zanathor idle game bot: the PvP battle challenge         *)
(* protocol (commands/battle.js over database/battles.js) and the grind    *)
(* session aggregator (commands/grind.js).                                 *)
(*                                                                         *)
(* Node.js runs every handler on one thread; a handler gives up control    *)
(* only at an `await`.  Each handler invocation is therefore a small       *)
(* process whose steps are the code between two awaits, and whose database *)
(* statements (one SQL statement, or one BEGIN..COMMIT transaction) are    *)
(* atomic.                                                                 *)
(***************************************************************************)
EXTENDS Integers, Sequences, FiniteSets, TLC

(***************************************************************************)
(* Bounds of the model.                                                    *)
(***************************************************************************)
\* /battle commands of the attacker in one run of SpecEscrow
MaxCommands == 2
\* clicks on the buttons of one challenge in one run of Spec
MaxClicks == 2
\* /grind commands of the player, hence session objects, in one run of SpecGrind
MaxSessions == 2
\* clicks on the grind button in one run of SpecGrind
MaxGrindClicks == 2
\* flushSession invocations that reach the database in one run of SpecGrind
MaxFlushes == 2

(***************************************************************************)
(* Program constants.                                                      *)
(***************************************************************************)
DAILY_BATTLE_LIMIT == 999
MINIMUM_BET == 0
GLOBAL_COOLDOWN_MS == 0
POWER_RATIO_CAPPED == 3
POWER_RATIO_CONSENT == 5
BASE_GOLD_PER_HOUR == 60
BASE_XP_PER_HOUR == 30
XP_PER_LEVEL_BASE == 50
XP_LEVEL_MULTIPLIER_NUM == 27
XP_LEVEL_MULTIPLIER_DEN == 20

(***************************************************************************)
(* The world of the battle model: three players, each owning the guild of  *)
(* the same number.  Guild 1 is far stronger than guild 2 (consent tier)   *)
(* and the equal of guild 3 (normal tier).                                 *)
(***************************************************************************)
Guilds == {1, 2, 3}
Users == Guilds
Attacker == 1
Handlers == 1 .. (MaxCommands + MaxClicks)
\* the players who click the buttons of a challenge: the defender and a bystander
Clickers == {2, 3}
\* bets a /battle command may name
Bets == {40, 70}
\* costs of the upgrade purchases of the run
Costs == {50}
\* outcomes of `1 + Math.random() * 4`, in percent
RandomPercents == {1, 4}
\* guilds.adventurer_count and guilds.adventurer_capacity at the start
InitAdventurers == [g \in Guilds |-> IF g = 2 THEN 1 ELSE 10]
InitCapacity == [g \in Guilds |-> 10]
InitGold == [g \in Guilds |-> 100]
InitXp == [g \in Guilds |-> IF g = 2 THEN 40 ELSE 100]
\* the levels of InitXp: getTotalXpForLevel(2) = 67 <= 100 < 158
InitLevel == [g \in Guilds |-> IF g = 2 THEN 1 ELSE 2]
\* `new Date().toISOString().split('T')[0]`: the run stays within one UTC date
Today == 1

VARIABLES
    \* ---- table guilds
    gold, xp, level, battles_today, last_battle_at, last_battle_reset,
    lifetime_battles_won, lifetime_battles_lost, upgrade_level,
    lifetime_grind_gold, lifetime_grind_clicks, lifetime_grind_sessions,
    peak_gold_balance,
    adventurer_count, adventurer_capacity, prestige_level, prestige_points,
    auto_prestige_enabled, lifetime_prestiges,
    \* ---- table guild_prestige_upgrades
    guild_prestige_upgrades,
    \* ---- table battles (append-only)
    battles,
    \* ---- handler invocations, challenge messages and their expiry timers
    hd, msg, timer,
    \* ---- history of each challenge (not program state)
    executed, timerRefunds, declineRefunds, atkDelta, defDelta,
    debited, credited, lockFailures,
    \* ---- grind.js: the session store, the session objects, the flushSession
    \* invocations in flight, the /grind handlers and their button collectors
    grindSessions, sess, fl, gc, collector,
    \* ---- history of each grind session (not program state)
    persisted, clicksAccepted, lostAtReplace,
    \* ---- the free-revenge window of each battle result has passed
    revengeExpired,
    \* ---- handlePrestigeConfirmModal invocations and their transactions, the
    \* row lock of each guild, and the /collect handlers
    tx, rowLock, cl,
    \* ---- one call of calculateBattleRewards: its arguments, its random
    \* draws and what it returned
    rewardsCall,
    \* ---- one call of calculateWinChance and of calculatePowerRatio /
    \* getBattleType on a pair of powers, and what they returned
    powerCall,
    \* ---- one call of calculateIdleEarnings: the guild row, the owned
    \* prestige upgrades, the elapsed time, the random draw, and what it returned
    idleCall,
    \* ---- history: the upgrade purchases that were refused
    purchaseFailures,
    \* ---- the calls of checkAndApplyLevelUp on one guild: the guild object
    \* passed, and what each call returned and wrote
    levelCall,
    \* ---- the wall clock in minutes, and the guilds column last_collected_at
    now, last_collected_at,
    \* ---- the value the build gives GLOBAL_COOLDOWN_MS, in minutes
    globalCooldown,
    \* ---- the invocations of handlePrestigeBuySelect: the guild, the upgrade,
    \* the level and the cost purchasePrestigeUpgrade read, and its position
    buy,
    \* ---- table guild_upgrades: the owned level of Guild Scouts (max_level 5)
    guild_scouts_level,
    \* ---- the submissions of the /upgrade quantity modal for Guild Scouts:
    \* the text entered, the gold and the level read, the purchase computed
    modal

cooldownVars == <<battles_today, last_battle_at, last_battle_reset>>
tallyVars == <<lifetime_battles_won, lifetime_battles_lost>>
grindStatVars == <<lifetime_grind_gold, lifetime_grind_clicks, lifetime_grind_sessions,
                   peak_gold_balance>>
guildVars == <<gold, xp, level, cooldownVars, tallyVars, upgrade_level, grindStatVars>>
historyVars == <<executed, timerRefunds, declineRefunds, atkDelta, defDelta,
                 debited, credited, lockFailures>>
battleVars == <<guildVars, battles, hd, msg, timer, historyVars>>
grindVars == <<grindSessions, sess, fl, gc, collector, persisted, clicksAccepted,
               lostAtReplace>>
prestigeColumns == <<adventurer_count, adventurer_capacity, prestige_level, prestige_points,
                     auto_prestige_enabled, lifetime_prestiges, guild_prestige_upgrades>>
prestigeVars == <<prestigeColumns, tx, rowLock, cl>>
otherVars == <<revengeExpired, rewardsCall, powerCall, idleCall, purchaseFailures, levelCall>>
clockVars == <<now, last_collected_at, globalCooldown>>
purchaseVars == <<buy, guild_scouts_level, modal>>
restVars == <<prestigeVars, otherVars, clockVars, purchaseVars>>
vars == <<battleVars, grindVars, restVars>>

Max(a, b) == IF a >= b THEN a ELSE b
Min(a, b) == IF a <= b THEN a ELSE b

(***************************************************************************)
(* database/battles.js: pure functions.  Powers are carried times 5000 so  *)
(* that they stay integers; every use compares or divides two powers, so   *)
(* the scale cancels.                                                      *)
(***************************************************************************)
\* adventurer_count + goldPerHour / 500 + xp / 5000, for a guild without
\* upgrades or prestige at rank multiplier 1.0
calculatePower(g, xpOf) ==
    adventurer_count[g] * 5000
        + (adventurer_count[g] * BASE_GOLD_PER_HOUR) * 10
        + xpOf[g]

\* getBattleType with <= for < at the first boundary
getBattleTypeInclusive(power1, power2) ==
    LET stronger == Max(power1, power2)
        weaker == Min(power1, power2)
    IN  IF weaker = 0 THEN "consent"
        ELSE IF stronger <= POWER_RATIO_CAPPED * weaker THEN "normal"
        ELSE IF stronger < POWER_RATIO_CONSENT * weaker THEN "capped"
        ELSE "consent"

\* "consent" | "capped" | "normal" from stronger / weaker
getBattleType(power1, power2) ==
    LET stronger == Max(power1, power2)
        weaker == Min(power1, power2)
    IN  IF weaker = 0 THEN "consent"
        ELSE IF stronger < POWER_RATIO_CAPPED * weaker THEN "normal"
        ELSE IF stronger < POWER_RATIO_CONSENT * weaker THEN "capped"
        ELSE "consent"

isCapped(type) == type \in {"capped", "consent"}

requiresConsent(type) == type = "consent"

\* the largest finite power: it stands for Number.MAX_VALUE, a sum above it
\* is Infinity
MaxPower == 12

\* a floating-point sum that is above the largest finite number is Infinity
isInfinity(sum) == sum > MaxPower

\* calculateWinChance whose zero check returns 0
calculateWinChanceZeroLoses(attackerPower, defenderPower) ==
    LET total == attackerPower + defenderPower
        powerDiff == attackerPower - defenderPower
    IN  IF total = 0 THEN [num |-> 0, den |-> 1]
        ELSE IF isInfinity(total) THEN [num |-> 50, den |-> 1]
        ELSE LET winChance == 50 * total + powerDiff * 15
             IN  [num |-> Min(65 * total, Max(35 * total, winChance)), den |-> total]

\* the win chance in percent as the fraction num / den: 50 + (powerDiff /
\* totalPower) * 15 clamped to 35 .. 65; a finite difference over Infinity is 0
calculateWinChance(attackerPower, defenderPower) ==
    LET total == attackerPower + defenderPower
        powerDiff == attackerPower - defenderPower
    IN  IF total = 0 THEN [num |-> 50, den |-> 1]
        ELSE IF isInfinity(total) THEN [num |-> 50, den |-> 1]
        ELSE LET winChance == 50 * total + powerDiff * 15
             IN  [num |-> Min(65 * total, Max(35 * total, winChance)), den |-> total]

\* calculateBattleRewards without its last line, Math.min(goldTransfer, gold)
calculateBattleRewardsUnclamped(betAmount, loserGold, loserXp, strongerWon, capped, attackerLost, xpPercent, cappedPercent) ==
    LET xpBonus == (loserXp * xpPercent) \div 100
        cappedAmount == (loserGold * cappedPercent) \div 100
        useCap == ~attackerLost /\ strongerWon /\ capped /\ cappedAmount < betAmount
        transfer == IF useCap THEN cappedAmount ELSE betAmount
    IN  [goldTransfer |-> transfer,
         xpBonus |-> xpBonus,
         wasCapped |-> useCap]

calculateBattleRewards(betAmount, loserGold, loserXp, strongerWon, capped, attackerLost, xpPercent, cappedPercent) ==
    LET xpBonus == (loserXp * xpPercent) \div 100
        cappedAmount == (loserGold * cappedPercent) \div 100
        useCap == ~attackerLost /\ strongerWon /\ capped /\ cappedAmount < betAmount
        transfer == IF useCap THEN cappedAmount ELSE betAmount
    IN  [goldTransfer |-> Min(transfer, loserGold),
         xpBonus |-> xpBonus,
         wasCapped |-> useCap]

\* the daily limit, then the global cooldown; last_battle_at is -1 for NULL
checkBattleCooldowns(g) ==
    LET battlesToday == IF last_battle_reset[g] = Today THEN battles_today[g] ELSE 0
        timeSince == now - last_battle_at[g]
    IN  /\ battlesToday < DAILY_BATTLE_LIMIT
        /\ ~(last_battle_at[g] # -1 /\ globalCooldown > 0 /\ timeSince < globalCooldown)

(***************************************************************************)
(* database/battles.js: statements on the guilds table.                    *)
(***************************************************************************)
\* the debit without its guard, gold >= $2
lockBetGoldUnchecked(goldOf, guildId, amount) ==
    [ok |-> TRUE, gold |-> [goldOf EXCEPT ![guildId] = @ - amount]]

\* UPDATE guilds SET gold = gold - $2 WHERE id = $1 AND gold >= $2
lockBetGold(goldOf, guildId, amount) ==
    IF goldOf[guildId] >= amount
    THEN [ok |-> TRUE, gold |-> [goldOf EXCEPT ![guildId] = @ - amount]]
    ELSE [ok |-> FALSE, gold |-> goldOf]

\* the credit applied twice
unlockBetGoldTwice(goldOf, guildId, amount) ==
    [goldOf EXCEPT ![guildId] = @ + amount + amount]

\* UPDATE guilds SET gold = gold + $2 WHERE id = $1
unlockBetGold(goldOf, guildId, amount) ==
    [goldOf EXCEPT ![guildId] = @ + amount]

\* the loser's debit without GREATEST(0, ...)
applyBattleGoldUnclamped(goldOf, winnerId, loserId, goldTransfer) ==
    [goldOf EXCEPT ![winnerId] = @ + goldTransfer,
                   ![loserId] = @ - goldTransfer]

\* the gold part of the applyBattleResults transaction
applyBattleGold(goldOf, winnerId, loserId, goldTransfer) ==
    [goldOf EXCEPT ![winnerId] = @ + goldTransfer,
                   ![loserId] = Max(0, @ - goldTransfer)]

(***************************************************************************)
(* commands/battle.js.  hd[h] is one handler invocation: a /battle command *)
(* (kind "battle"), a click on "Accept Challenge" (kind "accept") or on    *)
(* "Decline" (kind "decline"), on "Match Bet!" (kind "counter") or on      *)
(* "Free Revenge!" (kind "revenge").  A challenge is named by the slot c   *)
(* of the /battle command that posted it; msg[c] is what its message shows *)
(* and timer[c] the setTimeout callback of execute.  A counter-attack or a *)
(* free revenge is a battle of its own, c is its own slot and origin the   *)
(* battle whose result message carried the button.                         *)
(***************************************************************************)
NoHandler ==
    [kind |-> "free", pc |-> "free", user |-> 0, c |-> 0, target |-> 0,
     bet |-> 0, type |-> "none", won |-> FALSE, goldTransfer |-> 0,
     xpBonus |-> 0, curBattles |-> 0, rejected |-> FALSE,
     origin |-> 0, ownGold |-> 0, ownXp |-> 0]

CanStart(h) == hd[h].kind = "free"

\* the slots from first on are taken in order
InOrder(h, first) == IF h = first THEN TRUE ELSE hd[h - 1].kind # "free"

\* the message has components: the challenge buttons or the counter-attack row
HasComponents(c) == msg[c] \in {"challenge", "result"}

\* the checks of execute without the one on the attacker's gold
ValidBattleIgnoringGold(user, target, bet) ==
    /\ bet >= MINIMUM_BET
    /\ checkBattleCooldowns(user)
    /\ target # user

\* the checks of execute before the defender's power is looked at
ValidBattle(user, target, bet) ==
    /\ bet >= MINIMUM_BET
    /\ gold[user] >= bet
    /\ checkBattleCooldowns(user)
    /\ target # user

\* the synchronous head of executeBattle: the roll and the rewards, computed
\* from the guild rows the caller has read
executeBattleStart(rec, atk, def, bet, won, xpPercent, cappedPercent) ==
    LET attackerPower == calculatePower(atk, xp)
        defenderPower == calculatePower(def, xp)
        type == getBattleType(attackerPower, defenderPower)
        loser == IF won THEN def ELSE atk
        attackerIsStronger == attackerPower > defenderPower
        strongerWon == (attackerIsStronger /\ won) \/ (~attackerIsStronger /\ ~won)
        r == calculateBattleRewards(bet, gold[loser], xp[loser], strongerWon,
                                    isCapped(type), ~won, xpPercent, cappedPercent)
    IN  [rec EXCEPT !.pc = "apply", !.type = type, !.won = won,
                    !.goldTransfer = r.goldTransfer, !.xpBonus = r.xpBonus,
                    !.curBattles = IF last_battle_reset[atk] = Today
                                   THEN battles_today[atk] ELSE 0]

\* /battle bet:<bet> user:<target>, issued by the attacker
BattleCommand(h, target, bet) ==
    /\ CanStart(h)
    /\ LET rec == [NoHandler EXCEPT !.kind = "battle", !.user = Attacker, !.c = h,
                                    !.target = target, !.bet = bet]
           type == getBattleType(calculatePower(Attacker, xp), calculatePower(target, xp))
       IN  IF ~ValidBattle(Attacker, target, bet)
           THEN hd' = [hd EXCEPT ![h] = [rec EXCEPT !.pc = "done", !.rejected = TRUE]]
           ELSE IF type = "consent"
           THEN hd' = [hd EXCEPT ![h] = [rec EXCEPT !.pc = "lock", !.type = type]]
           ELSE \E won \in BOOLEAN, xpPercent \in RandomPercents, cappedPercent \in RandomPercents :
                    hd' = [hd EXCEPT ![h] = executeBattleStart(rec, Attacker, target, bet,
                                                               won, xpPercent, cappedPercent)]
    /\ UNCHANGED <<guildVars, battles, msg, timer, historyVars, grindVars, restVars>>

\* execute, consent tier: await lockBetGold
LockBet(h) ==
    /\ hd[h].kind = "battle" /\ hd[h].pc = "lock"
    /\ LET r == lockBetGold(gold, hd[h].user, hd[h].bet)
       IN  /\ gold' = r.gold
           /\ hd' = [hd EXCEPT ![h].pc = IF r.ok THEN "post" ELSE "done",
                               ![h].rejected = ~r.ok]
           /\ atkDelta' = [atkDelta EXCEPT ![h] = IF r.ok THEN @ - hd[h].bet ELSE @]
           /\ debited' = [debited EXCEPT ![hd[h].user] = IF r.ok THEN @ + hd[h].bet ELSE @]
           /\ lockFailures' = IF r.ok THEN lockFailures ELSE lockFailures + 1
    /\ UNCHANGED <<xp, level, cooldownVars, tallyVars, upgrade_level, grindStatVars,
                   battles, msg, timer, executed, timerRefunds, declineRefunds,
                   defDelta, credited, grindVars, restVars>>

\* execute: interaction.reply posts the challenge, then setTimeout arms the timer
PostChallenge(h) ==
    /\ hd[h].kind = "battle" /\ hd[h].pc = "post"
    /\ hd' = [hd EXCEPT ![h].pc = "done"]
    /\ msg' = [msg EXCEPT ![h] = "challenge"]
    /\ timer' = [timer EXCEPT ![h] = "armed"]
    /\ UNCHANGED <<guildVars, battles, historyVars, grindVars, restVars>>

\* execute: interaction.reply throws; the handler ends before setTimeout
PostChallengeFails(h) ==
    /\ hd[h].kind = "battle" /\ hd[h].pc = "post"
    /\ hd' = [hd EXCEPT ![h].pc = "done"]
    /\ UNCHANGED <<guildVars, battles, msg, timer, historyVars, grindVars, restVars>>

\* the timer callback: await reply.fetch() and the test of message.components
TimerFetch(c) ==
    /\ timer[c] = "armed"
    /\ timer' = [timer EXCEPT ![c] = IF HasComponents(c) THEN "refund" ELSE "done"]
    /\ UNCHANGED <<guildVars, battles, hd, msg, historyVars, grindVars, restVars>>

\* the timer callback: reply.fetch() throws and the catch logs it
TimerFetchFails(c) ==
    /\ timer[c] = "armed"
    /\ timer' = [timer EXCEPT ![c] = "done"]
    /\ UNCHANGED <<guildVars, battles, hd, msg, historyVars, grindVars, restVars>>

\* handleChallengeTimeout: await unlockBetGold
TimerRefund(c) ==
    /\ timer[c] = "refund"
    /\ gold' = unlockBetGold(gold, hd[c].user, hd[c].bet)
    /\ timer' = [timer EXCEPT ![c] = "edit"]
    /\ timerRefunds' = [timerRefunds EXCEPT ![c] = @ + 1]
    /\ atkDelta' = [atkDelta EXCEPT ![c] = @ + hd[c].bet]
    /\ credited' = [credited EXCEPT ![hd[c].user] = @ + hd[c].bet]
    /\ UNCHANGED <<xp, level, cooldownVars, tallyVars, upgrade_level, grindStatVars,
                   battles, hd, msg, executed, declineRefunds, defDelta, debited,
                   lockFailures, grindVars, restVars>>

\* handleChallengeTimeout: message.edit({components: []})
TimerEdit(c) ==
    /\ timer[c] = "edit"
    /\ msg' = [msg EXCEPT ![c] = "expired"]
    /\ timer' = [timer EXCEPT ![c] = "done"]
    /\ UNCHANGED <<guildVars, battles, hd, historyVars, grindVars, restVars>>

\* handleBattleAccept up to the roll: the defender check, the fresh guild rows
AcceptClick(h, u, c) ==
    /\ CanStart(h)
    /\ hd[c].kind = "battle" /\ msg[c] = "challenge"
    /\ LET rec == [NoHandler EXCEPT !.kind = "accept", !.user = u, !.c = c,
                                    !.target = hd[c].target, !.bet = hd[c].bet]
       IN  IF u # hd[c].target
           THEN hd' = [hd EXCEPT ![h] = [rec EXCEPT !.pc = "done", !.rejected = TRUE]]
           ELSE \E won \in BOOLEAN, xpPercent \in RandomPercents, cappedPercent \in RandomPercents :
                    hd' = [hd EXCEPT ![h] = executeBattleStart(rec, hd[c].user, hd[c].target,
                                                               hd[c].bet, won, xpPercent,
                                                               cappedPercent)]
    /\ UNCHANGED <<guildVars, battles, msg, timer, historyVars, grindVars, restVars>>

\* executeBattle: await applyBattleResults, one transaction
ApplyResults(h) ==
    /\ hd[h].kind \in {"battle", "accept", "counter"} /\ hd[h].pc = "apply"
    /\ LET c == hd[h].c
           atk == hd[c].user
           def == hd[c].target
           winner == IF hd[h].won THEN atk ELSE def
           loser == IF hd[h].won THEN def ELSE atk
           taken == gold[loser] - Max(0, gold[loser] - hd[h].goldTransfer)
       IN  /\ gold' = applyBattleGold(gold, winner, loser, hd[h].goldTransfer)
           /\ xp' = [xp EXCEPT ![winner] = @ + hd[h].xpBonus]
           /\ lifetime_battles_won' = [lifetime_battles_won EXCEPT ![winner] = @ + 1]
           /\ lifetime_battles_lost' = [lifetime_battles_lost EXCEPT ![loser] = @ + 1]
           /\ executed' = [executed EXCEPT ![c] = @ + 1]
           /\ atkDelta' = [atkDelta EXCEPT ![c] =
                              IF hd[h].won THEN @ + hd[h].goldTransfer ELSE @ - taken]
           /\ defDelta' = [defDelta EXCEPT ![c] =
                              IF hd[h].won THEN @ - taken ELSE @ + hd[h].goldTransfer]
           /\ debited' = [debited EXCEPT ![loser] = @ + taken]
           /\ credited' = [credited EXCEPT ![winner] = @ + hd[h].goldTransfer]
    /\ hd' = [hd EXCEPT ![h].pc = "record"]
    /\ UNCHANGED <<level, cooldownVars, upgrade_level, grindStatVars,
                   battles, msg, timer, timerRefunds, declineRefunds, lockFailures,
                   grindVars, restVars>>

\* a query of applyBattleResults throws: ROLLBACK, and the error is re-thrown
\* out of executeBattle
ApplyResultsFails(h) ==
    /\ hd[h].kind \in {"battle", "accept", "counter"} /\ hd[h].pc = "apply"
    /\ hd' = [hd EXCEPT ![h].pc = "failed"]
    /\ UNCHANGED <<guildVars, battles, msg, timer, historyVars, grindVars, restVars>>

\* the goldTransferred and xpTransferred arguments of recordBattle: a free
\* revenge passes its reward only when the revenger won
goldTransferred(rec) == IF rec.kind = "revenge" /\ ~rec.won THEN 0 ELSE rec.goldTransfer
xpTransferred(rec) == IF rec.kind = "revenge" /\ ~rec.won THEN 0 ELSE rec.xpBonus

\* recordBattle: INSERT INTO battles
RecordInsert(h) ==
    /\ hd[h].kind \in {"battle", "accept", "counter", "revenge"} /\ hd[h].pc = "record"
    /\ LET c == hd[h].c
       IN  battles' = Append(battles,
                [attacker_id |-> hd[c].user, defender_id |-> hd[c].target,
                 bet_amount |-> hd[h].bet,
                 winner_id |-> IF hd[h].won THEN hd[c].user ELSE hd[c].target,
                 gold_transferred |-> goldTransferred(hd[h]),
                 xp_transferred |-> xpTransferred(hd[h])])
    /\ hd' = [hd EXCEPT ![h].pc = "cooldown"]
    /\ UNCHANGED <<guildVars, msg, timer, historyVars, grindVars, restVars>>

\* recordBattle: the INSERT throws, and executeBattle with it
RecordInsertFails(h) ==
    /\ hd[h].kind \in {"battle", "accept", "counter", "revenge"} /\ hd[h].pc = "record"
    /\ hd' = [hd EXCEPT ![h].pc = "failed"]
    /\ UNCHANGED <<guildVars, battles, msg, timer, historyVars, grindVars, restVars>>

\* recordBattle: UPDATE guilds SET last_battle_at = NOW(), battles_today = $2,
\* last_battle_reset = $3
RecordCooldown(h) ==
    /\ hd[h].kind \in {"battle", "accept", "counter", "revenge"} /\ hd[h].pc = "cooldown"
    /\ LET atk == hd[hd[h].c].user
       IN  /\ last_battle_at' = [last_battle_at EXCEPT ![atk] = now]
           /\ battles_today' = [battles_today EXCEPT ![atk] = hd[h].curBattles + 1]
           /\ last_battle_reset' = [last_battle_reset EXCEPT ![atk] = Today]
    /\ hd' = [hd EXCEPT ![h].pc = "reply"]
    /\ UNCHANGED <<gold, xp, level, tallyVars, upgrade_level, grindStatVars,
                   battles, msg, timer, historyVars, grindVars, restVars>>

\* recordBattle: the UPDATE of the cooldown columns throws
RecordCooldownFails(h) ==
    /\ hd[h].kind \in {"battle", "accept", "counter", "revenge"} /\ hd[h].pc = "cooldown"
    /\ hd' = [hd EXCEPT ![h].pc = "failed"]
    /\ UNCHANGED <<guildVars, battles, msg, timer, historyVars, grindVars, restVars>>

\* executeBattle: interaction.update / interaction.reply with the result embed
\* and the counter-attack row
SendResult(h) ==
    /\ hd[h].kind \in {"battle", "accept", "counter"} /\ hd[h].pc = "reply"
    /\ msg' = [msg EXCEPT ![hd[h].c] = "result"]
    /\ hd' = [hd EXCEPT ![h].pc = "done"]
    /\ UNCHANGED <<guildVars, battles, timer, historyVars, grindVars, restVars>>

\* handleBattleDecline: await unlockBetGold, whoever clicked
DeclineClick(h, u, c) ==
    /\ CanStart(h)
    /\ hd[c].kind = "battle" /\ msg[c] = "challenge"
    /\ hd' = [hd EXCEPT ![h] = [NoHandler EXCEPT !.kind = "decline", !.user = u, !.c = c,
                                                 !.target = hd[c].target,
                                                 !.bet = hd[c].bet, !.pc = "update"]]
    /\ gold' = unlockBetGold(gold, hd[c].user, hd[c].bet)
    /\ declineRefunds' = [declineRefunds EXCEPT ![c] = @ + 1]
    /\ atkDelta' = [atkDelta EXCEPT ![c] = @ + hd[c].bet]
    /\ credited' = [credited EXCEPT ![hd[c].user] = @ + hd[c].bet]
    /\ UNCHANGED <<xp, level, cooldownVars, tallyVars, upgrade_level, grindStatVars,
                   battles, msg, timer, executed, timerRefunds, defDelta, debited,
                   lockFailures, grindVars, restVars>>

\* handleBattleDecline: interaction.update({components: []})
DeclineUpdate(h) ==
    /\ hd[h].kind = "decline" /\ hd[h].pc = "update"
    /\ msg' = [msg EXCEPT ![hd[h].c] = "declined"]
    /\ hd' = [hd EXCEPT ![h].pc = "done"]
    /\ UNCHANGED <<guildVars, battles, timer, historyVars, grindVars, restVars>>

\* database/upgrades.js purchaseUpgrade: one transaction, by the attacker
PurchaseUpgrade(cost) ==
    /\ rowLock[Attacker] = 0
    /\ gold[Attacker] >= cost
    /\ gold' = [gold EXCEPT ![Attacker] = @ - cost]
    /\ upgrade_level' = [upgrade_level EXCEPT ![Attacker] = @ + 1]
    /\ debited' = [debited EXCEPT ![Attacker] = @ + cost]
    /\ UNCHANGED <<xp, level, cooldownVars, tallyVars, grindStatVars, battles, hd, msg,
                   timer, executed, timerRefunds, declineRefunds, atkDelta, defDelta,
                   credited, lockFailures, grindVars, restVars>>

\* the transaction of purchaseUpgrade: the guarded debit, then the upsert of
\* the level; 'Insufficient gold' is thrown when the debit matched no row
purchaseUpgrade(goldOf, levelOf, guildId, cost) ==
    IF goldOf[guildId] >= cost
    THEN [ok |-> TRUE, gold |-> [goldOf EXCEPT ![guildId] = @ - cost],
          upgrade_level |-> [levelOf EXCEPT ![guildId] = @ + 1]]
    ELSE [ok |-> FALSE, gold |-> goldOf, upgrade_level |-> levelOf]

\* a purchase the attacker cannot afford: refused by the handler's check or by
\* the transaction
MaxPurchaseFailures == 1
PurchaseUpgradeFails(cost) ==
    /\ rowLock[Attacker] = 0
    /\ gold[Attacker] < cost
    /\ purchaseFailures < MaxPurchaseFailures
    /\ LET r == purchaseUpgrade(gold, upgrade_level, Attacker, cost)
       IN  /\ gold' = r.gold
           /\ upgrade_level' = r.upgrade_level
           /\ purchaseFailures' = IF r.ok THEN purchaseFailures ELSE purchaseFailures + 1
    /\ UNCHANGED <<xp, level, cooldownVars, tallyVars, grindStatVars, battles, hd, msg,
                   timer, historyVars, grindVars, prestigeVars, revengeExpired,
                   rewardsCall, powerCall, idleCall, levelCall, clockVars, purchaseVars>>

(***************************************************************************)
(* commands/battle.js: the buttons under a battle result.  The result      *)
(* message keeps its buttons; both handlers answer with a new message.     *)
(***************************************************************************)
\* 1 + Math.random() percent, in tenths of a percent
RevengePermille == {10, 19}

\* calculateFreeRevengeRewards(attackerGuild)
calculateFreeRevengeRewards(attackerGold, attackerXp, goldPermille, xpPermille) ==
    [goldReward |-> (attackerGold * goldPermille) \div 1000,
     xpBonus |-> (attackerXp * xpPermille) \div 1000]

\* createCounterAttackButtons: the Free Revenge button is on the result of c
OffersFreeRevenge(c) ==
    /\ hd[c].kind = "battle" /\ msg[c] = "result"
    /\ hd[c].type = "consent"
    /\ calculatePower(hd[c].user, xp) > calculatePower(hd[c].target, xp)

\* the free revenges applied for the battle c
RevengesApplied(c) ==
    {h \in Handlers : /\ hd[h].kind = "revenge" /\ hd[h].origin = c
                      /\ hd[h].pc \in {"record", "cooldown", "reply", "done"}
                      /\ ~hd[h].rejected}

\* isFreeRevengeValid turns false: five minutes have passed since the result
RevengeWindowEnds(c) ==
    /\ msg[c] = "result" /\ ~revengeExpired[c]
    /\ revengeExpired' = [revengeExpired EXCEPT ![c] = TRUE]
    /\ UNCHANGED <<battleVars, grindVars, prestigeVars, rewardsCall, powerCall, idleCall,
                   purchaseFailures, levelCall, clockVars, purchaseVars>>

\* a check that never expires
isFreeRevengeValidForever(c) == TRUE

\* isFreeRevengeValid(battleTimestamp), for the timestamp of the result of c
isFreeRevengeValid(c) == ~revengeExpired[c]

\* handleFreeRevenge up to the second guild read: the defender check, the
\* expiry check, the revenger's guild row and checkBattleCooldowns on it
FreeRevengeClick(h, u, c) ==
    /\ CanStart(h)
    /\ OffersFreeRevenge(c)
    /\ LET rec == [NoHandler EXCEPT !.kind = "revenge", !.user = u, !.c = h, !.origin = c,
                                    !.target = hd[c].user, !.type = "revenge"]
       IN  IF u # hd[c].target \/ ~isFreeRevengeValid(c) \/ ~checkBattleCooldowns(u)
           THEN hd' = [hd EXCEPT ![h] = [rec EXCEPT !.pc = "done", !.rejected = TRUE]]
           ELSE hd' = [hd EXCEPT ![h] =
                         [rec EXCEPT !.pc = "read", !.ownGold = gold[u], !.ownXp = xp[u],
                                     !.curBattles = IF last_battle_reset[u] = Today
                                                    THEN battles_today[u] ELSE 0]]
    /\ UNCHANGED <<guildVars, battles, msg, timer, historyVars, grindVars, restVars>>

\* handleFreeRevenge: the original attacker's guild row, the roll and
\* calculateFreeRevengeRewards on that row
FreeRevengeRead(h) ==
    /\ hd[h].kind = "revenge" /\ hd[h].pc = "read"
    /\ \E won \in BOOLEAN, goldPermille \in RevengePermille, xpPermille \in RevengePermille :
          LET r == calculateFreeRevengeRewards(gold[hd[h].target], xp[hd[h].target],
                                               goldPermille, xpPermille)
          IN  hd' = [hd EXCEPT ![h].pc = "apply", ![h].won = won,
                               ![h].goldTransfer = r.goldReward, ![h].xpBonus = r.xpBonus]
    /\ UNCHANGED <<guildVars, battles, msg, timer, historyVars, grindVars, restVars>>

\* the gold statements of applyFreeRevengeResults, run whoever won
applyFreeRevengeGoldAlways(goldOf, defenderId, attackerId, defenderWon, goldReward) ==
    [goldOf EXCEPT ![defenderId] = @ + goldReward, ![attackerId] = Max(0, @ - goldReward)]

\* the gold statements of applyFreeRevengeResults
applyFreeRevengeGold(goldOf, defenderId, attackerId, defenderWon, goldReward) ==
    IF defenderWon
    THEN [goldOf EXCEPT ![defenderId] = @ + goldReward, ![attackerId] = Max(0, @ - goldReward)]
    ELSE goldOf

\* handleFreeRevenge: await applyFreeRevengeResults, one transaction
ApplyFreeRevenge(h) ==
    /\ hd[h].kind = "revenge" /\ hd[h].pc = "apply"
    /\ LET defenderId == hd[h].user
           attackerId == hd[h].target
           winner == IF hd[h].won THEN defenderId ELSE attackerId
           loser == IF hd[h].won THEN attackerId ELSE defenderId
           newGold == applyFreeRevengeGold(gold, defenderId, attackerId, hd[h].won,
                                           hd[h].goldTransfer)
       IN  /\ gold' = newGold
           /\ xp' = [xp EXCEPT ![defenderId] = IF hd[h].won THEN @ + hd[h].xpBonus ELSE @]
           /\ lifetime_battles_won' = [lifetime_battles_won EXCEPT ![winner] = @ + 1]
           /\ lifetime_battles_lost' = [lifetime_battles_lost EXCEPT ![loser] = @ + 1]
           /\ debited' = [debited EXCEPT ![attackerId] = @ + gold[attackerId] - newGold[attackerId]]
           /\ credited' = [credited EXCEPT ![defenderId] = @ + newGold[defenderId] - gold[defenderId]]
    /\ hd' = [hd EXCEPT ![h].pc = "record"]
    /\ UNCHANGED <<level, cooldownVars, upgrade_level, grindStatVars, battles, msg, timer,
                   executed, timerRefunds, declineRefunds, atkDelta, defDelta,
                   lockFailures, grindVars, restVars>>

\* handleFreeRevenge: interaction.reply with the FREE REVENGE RESULTS embed
SendRevengeResult(h) ==
    /\ hd[h].kind = "revenge" /\ hd[h].pc = "reply"
    /\ hd' = [hd EXCEPT ![h].pc = "done"]
    /\ UNCHANGED <<guildVars, battles, msg, timer, historyVars, grindVars, restVars>>

\* handleMatchBet and executeCounterAttack up to the second guild read: the
\* clicker's guild row, the bet and checkBattleCooldowns on that row
MatchBetClick(h, u, c) ==
    /\ CanStart(h)
    /\ hd[c].kind = "battle" /\ msg[c] = "result"
    /\ LET bet == Min(hd[c].bet, gold[u])
           rec == [NoHandler EXCEPT !.kind = "counter", !.user = u, !.c = h, !.origin = c,
                                    !.target = hd[c].user, !.bet = bet]
       IN  IF u = hd[c].user \/ ~checkBattleCooldowns(u)
           THEN hd' = [hd EXCEPT ![h] = [rec EXCEPT !.pc = "done", !.rejected = TRUE]]
           ELSE hd' = [hd EXCEPT ![h] =
                         [rec EXCEPT !.pc = "read", !.ownGold = gold[u], !.ownXp = xp[u],
                                     !.curBattles = IF last_battle_reset[u] = Today
                                                    THEN battles_today[u] ELSE 0]]
    /\ UNCHANGED <<guildVars, battles, msg, timer, historyVars, grindVars, restVars>>

\* executeCounterAttack: the original attacker's guild row, the bet check,
\* the roll and the rewards; the counter-attacker is judged on the row read
\* at the click
CounterRead(h) ==
    /\ hd[h].kind = "counter" /\ hd[h].pc = "read"
    /\ IF hd[h].bet < MINIMUM_BET
       THEN hd' = [hd EXCEPT ![h].pc = "done", ![h].rejected = TRUE]
       ELSE \E won \in BOOLEAN, xpPercent \in RandomPercents, cappedPercent \in RandomPercents :
              LET atk == hd[h].user
                  def == hd[h].target
                  attackerPower == calculatePower(atk, [xp EXCEPT ![atk] = hd[h].ownXp])
                  defenderPower == calculatePower(def, xp)
                  type == getBattleType(attackerPower, defenderPower)
                  attackerIsStronger == attackerPower > defenderPower
                  strongerWon == (attackerIsStronger /\ won) \/ (~attackerIsStronger /\ ~won)
                  loserGold == IF won THEN gold[def] ELSE hd[h].ownGold
                  loserXp == IF won THEN xp[def] ELSE hd[h].ownXp
                  r == calculateBattleRewards(hd[h].bet, loserGold, loserXp, strongerWon,
                                              isCapped(type), ~won, xpPercent, cappedPercent)
              IN  hd' = [hd EXCEPT ![h].pc = "apply", ![h].type = type, ![h].won = won,
                                   ![h].goldTransfer = r.goldTransfer,
                                   ![h].xpBonus = r.xpBonus]
    /\ UNCHANGED <<guildVars, battles, msg, timer, historyVars, grindVars, restVars>>

(***************************************************************************)
(* config.js: levels and ranks.                                            *)
(***************************************************************************)
RECURSIVE Pow(_, _)
Pow(b, e) == IF e = 0 THEN 1 ELSE b * Pow(b, e - 1)

\* floor(50 * 1.35 ^ (level - 1)) for the levels 7 .. 52
XpForLevelFrom7 ==
    <<302, 408, 551, 744, 1005, 1357, 1832, 2473, 3339, 4507, 6085, 8215, 11091, 14973,
      20213, 27288, 36839, 49733, 67139, 90638, 122362, 165189, 223005, 301057, 406427,
      548677, 740714, 999963, 1349951, 1822434, 2460286, 3321386, 4483872, 6053227,
      8171856, 11032006, 14893208, 20105832, 27142873, 36642878, 49467886, 66781646,
      90155223, 121709551, 164307893, 221815656>>

\* floor(XP_PER_LEVEL_BASE * XP_LEVEL_MULTIPLIER ^ (level - 1)), 1.35 = 27 / 20
\* (the powers leave 32 bits from level 7 on; levels 7 to 52 are tabulated)
getXpForLevel(l) ==
    IF l <= 1 THEN 0
    ELSE IF l <= 6
    THEN (XP_PER_LEVEL_BASE * Pow(XP_LEVEL_MULTIPLIER_NUM, l - 1))
             \div Pow(XP_LEVEL_MULTIPLIER_DEN, l - 1)
    ELSE XpForLevelFrom7[l - 6]

RECURSIVE getTotalXpForLevel(_)
getTotalXpForLevel(l) == IF l < 1 THEN 0 ELSE getXpForLevel(l) + getTotalXpForLevel(l - 1)

\* the while loop of checkAndApplyLevelUp
RECURSIVE levelAfter(_, _)
levelAfter(guildXp, currentLevel) ==
    IF guildXp >= getTotalXpForLevel(currentLevel + 1)
    THEN levelAfter(guildXp, currentLevel + 1)
    ELSE currentLevel

\* the calls of checkAndApplyLevelUp on the guild LevelGuild, one after the other
MaxLevelCalls == 2
LevelCalls == 1 .. MaxLevelCalls
LevelGuild == 1
NoLevelCall ==
    [returned |-> FALSE, guild |-> [xp |-> 0, level |-> 0], newLevel |-> 0,
     levelsGained |-> 0, leveledUp |-> FALSE, wrote |-> FALSE]

\* getRankForLevel(level).multiplier, times 10
rankMultiplier10(l) ==
    IF l >= 100 THEN 200 ELSE IF l >= 75 THEN 120 ELSE IF l >= 50 THEN 80
    ELSE IF l >= 35 THEN 50 ELSE IF l >= 20 THEN 30 ELSE IF l >= 10 THEN 20
    ELSE IF l >= 5 THEN 15 ELSE 10

(***************************************************************************)
(* commands/upgrades.js handleModal over database/upgrades.js, for the     *)
(* attacker and the one upgrade Guild Scouts.                              *)
(***************************************************************************)
\* seed: Guild Scouts, cost_multiplier 1.3 as a fraction
GUILD_SCOUTS == [base_cost |-> 80, multiplier_num |-> 13, multiplier_den |-> 10, max_level |-> 5]

\* Math.floor(upgrade.base_cost * Math.pow(upgrade.cost_multiplier, level))
calculateUpgradeCost(upgrade, currentLevel) ==
    (upgrade.base_cost * Pow(upgrade.multiplier_num, currentLevel))
        \div Pow(upgrade.multiplier_den, currentLevel)

\* the for loop of calculateBulkPurchaseCost from iteration i on
RECURSIVE bulkLoop(_, _, _, _, _)
bulkLoop(upgrade, i, quantity, totalCost, lvl) ==
    IF i < quantity /\ lvl < upgrade.max_level
    THEN bulkLoop(upgrade, i + 1, quantity, totalCost + calculateUpgradeCost(upgrade, lvl), lvl + 1)
    ELSE [totalCost |-> totalCost, finalLevel |-> lvl]

calculateBulkPurchaseCost(upgrade, currentLevel, quantity) ==
    LET r == bulkLoop(upgrade, 0, quantity, 0, currentLevel)
    IN  [totalCost |-> r.totalCost, finalLevel |-> r.finalLevel,
         levelsBought |-> r.finalLevel - currentLevel]

\* the while loop of calculateMaxAffordable
RECURSIVE affordLoop(_, _, _, _)
affordLoop(upgrade, availableGold, totalCost, lvl) ==
    IF lvl < upgrade.max_level /\ totalCost + calculateUpgradeCost(upgrade, lvl) <= availableGold
    THEN affordLoop(upgrade, availableGold, totalCost + calculateUpgradeCost(upgrade, lvl), lvl + 1)
    ELSE [totalCost |-> totalCost, finalLevel |-> lvl]

calculateMaxAffordable(upgrade, currentLevel, availableGold) ==
    LET r == affordLoop(upgrade, availableGold, 0, currentLevel)
    IN  [totalCost |-> r.totalCost, finalLevel |-> r.finalLevel,
         levelsBought |-> r.finalLevel - currentLevel]

\* modal submissions of one run, and the texts entered in the quantity field
MaxModals == 2
Modals == 1 .. MaxModals
QuantityInputs == {"1", "2", "max"}
parseInt(text) == IF text = "1" THEN 1 ELSE 2

NoModal ==
    [pc |-> "idle", input |-> "", remainingGold |-> 0, levelsBought |-> 0, totalCost |-> 0]

modalFrame ==
    UNCHANGED <<battleVars, grindVars, prestigeVars, otherVars, clockVars, buy>>

\* handleModal: await getGuildByDiscordId; remainingGold = guild.gold
ModalSubmit(m, text) ==
    /\ modal[m].pc = "idle"
    /\ IF m = 1 THEN TRUE ELSE modal[m - 1].pc # "idle"
    /\ modal' = [modal EXCEPT ![m] = [NoModal EXCEPT !.pc = "level", !.input = text,
                                                     !.remainingGold = gold[Attacker]]]
    /\ UNCHANGED guild_scouts_level
    /\ modalFrame

\* handleModal: await getGuildUpgradeLevel, the max-level check and the
\* purchase computed from the level and the gold that were read
ModalLevel(m) ==
    LET currentLevel == guild_scouts_level[Attacker]
        wanted == calculateBulkPurchaseCost(GUILD_SCOUTS, currentLevel, parseInt(modal[m].input))
        affordable == calculateMaxAffordable(GUILD_SCOUTS, currentLevel, modal[m].remainingGold)
        purchaseInfo == IF modal[m].input = "max" THEN affordable
                        ELSE IF wanted.totalCost > modal[m].remainingGold THEN affordable
                        ELSE wanted
    IN  /\ modal[m].pc = "level"
        /\ modal' = [modal EXCEPT ![m] =
                        IF currentLevel >= GUILD_SCOUTS.max_level \/ purchaseInfo.levelsBought = 0
                        THEN [@ EXCEPT !.pc = "skipped"]
                        ELSE [@ EXCEPT !.pc = "purchase",
                                       !.levelsBought = purchaseInfo.levelsBought,
                                       !.totalCost = purchaseInfo.totalCost]]
        /\ UNCHANGED guild_scouts_level
        /\ modalFrame

\* the transaction of purchaseUpgradeMultiple: the guarded debit, the SELECT
\* of the owned level, and the upsert to that level plus levelsToBuy
purchaseUpgradeMultiple(goldOf, levelOf, guildId, levelsToBuy, totalCost) ==
    IF goldOf[guildId] >= totalCost
    THEN [ok |-> TRUE, gold |-> [goldOf EXCEPT ![guildId] = @ - totalCost],
          level |-> [levelOf EXCEPT ![guildId] = @ + levelsToBuy]]
    ELSE [ok |-> FALSE, gold |-> goldOf, level |-> levelOf]

\* handleModal: await purchaseUpgradeMultiple.  Its first statement locks the
\* guild's row until COMMIT, so the transactions of one guild run one after
\* the other; 'Insufficient gold' rolls back and the upgrade is skipped
ModalPurchase(m) ==
    /\ modal[m].pc = "purchase"
    /\ rowLock[Attacker] = 0
    /\ LET r == purchaseUpgradeMultiple(gold, guild_scouts_level, Attacker,
                                        modal[m].levelsBought, modal[m].totalCost)
       IN  /\ gold' = r.gold
           /\ guild_scouts_level' = r.level
           /\ peak_gold_balance' = IF r.ok
                                    THEN [peak_gold_balance EXCEPT ![Attacker] = Max(@, r.gold[Attacker])]
                                    ELSE peak_gold_balance
           /\ modal' = [modal EXCEPT ![m].pc = IF r.ok THEN "done" ELSE "skipped",
                                     ![m].remainingGold = IF r.ok THEN r.gold[Attacker] ELSE @]
    /\ UNCHANGED <<xp, level, cooldownVars, tallyVars, upgrade_level, lifetime_grind_gold,
                   lifetime_grind_clicks, lifetime_grind_sessions, battles, hd, msg, timer,
                   historyVars, grindVars, prestigeVars, otherVars, clockVars, buy>>

(***************************************************************************)
(* commands/grind.js, for the one player who owns guild 1.  A session      *)
(* object is named by the /grind command that created it; grindSessions    *)
(* is the entry of the Map for the player (0: none).                       *)
(***************************************************************************)
Sessions == 1 .. MaxSessions
Flushes == 1 .. MaxFlushes
Grinder == 1

NoSession ==
    [goldPerClick |-> 0, xpPerClick |-> 0, sessionGold |-> 0, sessionXp |-> 0,
     totalClicks |-> 0, flushedGold |-> 0, flushedXp |-> 0, flushedClicks |-> 0,
     flushTimeout |-> FALSE]

NoFlush ==
    [pc |-> "free", s |-> 0, gold |-> 0, xp |-> 0, clicks |-> 0, origin |-> "none",
     owner |-> 0, rowGold |-> 0, rowXp |-> 0, rowLevel |-> 0]

\* execute: the click rates of a guild without upgrades
newSession(g) ==
    [NoSession EXCEPT
        !.goldPerClick = Max(1, (BASE_GOLD_PER_HOUR * adventurer_count[g]
                                    * rankMultiplier10(level[g])) \div (90 * 10)),
        !.xpPerClick = Max(1, (BASE_XP_PER_HOUR * adventurer_count[g]) \div 90)]

FreeFlush(f) ==
    /\ fl[f].pc = "free"
    /\ IF f = 1 THEN TRUE ELSE fl[f - 1].pc # "free"

\* flushSession: there is a session and it holds something to flush
FlushNeeded ==
    /\ grindSessions # 0
    /\ \/ sess[grindSessions].sessionGold - sess[grindSessions].flushedGold > 0
       \/ sess[grindSessions].sessionXp - sess[grindSessions].flushedXp > 0

\* flushSession: clearTimeout(session.flushTimeout)
clearFlushTimeout(ss) ==
    IF grindSessions = 0 THEN ss ELSE [ss EXCEPT ![grindSessions].flushTimeout = FALSE]

\* flushSession: "Update flushed tracking", after the three awaited writes
markFlushed(session) ==
    [session EXCEPT !.flushedGold = session.sessionGold,
                    !.flushedXp = session.sessionXp,
                    !.flushedClicks = session.totalClicks]

\* flushSession up to the call of addResources: the delta is computed from the
\* session stored under the player's id
flushSessionHead(f, origin, owner) ==
    LET session == sess[grindSessions]
    IN  [NoFlush EXCEPT !.pc = "write", !.s = grindSessions,
                        !.gold = session.sessionGold - session.flushedGold,
                        !.xp = session.sessionXp - session.flushedXp,
                        !.clicks = session.totalClicks - session.flushedClicks,
                        !.origin = origin, !.owner = owner]

\* a handler calls flushSession(odId, final): either a flush starts in a free
\* slot, or flushSession returns at once and the handler goes on
CallFlush(origin, owner, ss) ==
    /\ sess' = clearFlushTimeout(ss)
    /\ IF FlushNeeded
       THEN \E f \in Flushes :
                /\ FreeFlush(f)
                /\ fl' = [fl EXCEPT ![f] = flushSessionHead(f, origin, owner)]
       ELSE fl' = fl

\* what the caller of flushSession does when it returns, up to its next await
gcAfterFlush(origin, owner) ==
    IF origin = "grind" THEN [gc EXCEPT ![owner] = "upgrades"] ELSE gc

collectorAfterFlush(origin, owner) ==
    IF origin = "end"
    THEN [collector EXCEPT ![owner] = IF grindSessions # 0 THEN "update" ELSE "ended"]
    ELSE collector

\* /grind: execute from the return of getGuildByDiscordId to flushSession
GrindCommand(g) ==
    /\ gc[g] = "idle"
    /\ IF g = 1 THEN TRUE ELSE gc[g - 1] # "idle"
    /\ CallFlush("grind", g, sess)
    /\ gc' = IF FlushNeeded THEN [gc EXCEPT ![g] = "flushing"]
             ELSE [gc EXCEPT ![g] = "upgrades"]
    /\ UNCHANGED <<battleVars, grindSessions, collector, persisted, clicksAccepted,
                   lostAtReplace, restVars>>

\* /grind: execute from the return of getGuildUpgrades to grindSessions.set
GrindCreate(g) ==
    /\ gc[g] = "upgrades"
    /\ sess' = [sess EXCEPT ![g] = newSession(Grinder)]
    /\ grindSessions' = g
    /\ lostAtReplace' = IF grindSessions = 0 THEN lostAtReplace
                        ELSE lostAtReplace + (sess[grindSessions].sessionGold
                                                - sess[grindSessions].flushedGold)
    /\ gc' = [gc EXCEPT ![g] = "stats"]
    /\ UNCHANGED <<battleVars, fl, collector, persisted, clicksAccepted, restVars>>

\* /grind: await incrementStats(guild.id, {lifetime_grind_sessions: 1})
GrindStats(g) ==
    /\ gc[g] = "stats"
    /\ lifetime_grind_sessions' = [lifetime_grind_sessions EXCEPT ![Grinder] = @ + 1]
    /\ gc' = [gc EXCEPT ![g] = "reply"]
    /\ UNCHANGED <<gold, xp, level, cooldownVars, tallyVars, upgrade_level,
                   lifetime_grind_gold, lifetime_grind_clicks, peak_gold_balance,
                   battles, hd, msg, timer, historyVars,
                   grindSessions, sess, fl, collector, persisted, clicksAccepted,
                   lostAtReplace, restVars>>

\* /grind: interaction.reply and createMessageComponentCollector
GrindReply(g) ==
    /\ gc[g] = "reply"
    /\ collector' = [collector EXCEPT ![g] = "live"]
    /\ gc' = [gc EXCEPT ![g] = "done"]
    /\ UNCHANGED <<battleVars, grindSessions, sess, fl, persisted, clicksAccepted,
                   lostAtReplace, restVars>>

\* handleGrindClick, reached through the collector of message g; with no session
\* stored it only shows "Session expired" and changes nothing
GrindClick(g) ==
    /\ collector[g] = "live"
    /\ grindSessions # 0
    /\ clicksAccepted < MaxGrindClicks
    /\ sess' = [sess EXCEPT ![grindSessions] =
                   [@ EXCEPT !.sessionGold = @ + sess[grindSessions].goldPerClick,
                             !.sessionXp = @ + sess[grindSessions].xpPerClick,
                             !.totalClicks = @ + 1,
                             !.flushTimeout = TRUE]]
    /\ clicksAccepted' = clicksAccepted + 1
    /\ UNCHANGED <<battleVars, grindSessions, fl, gc, collector, persisted, lostAtReplace, restVars>>

\* the debounce timer of session s fires: flushSession(odId, false)
FlushTimerFires(s) ==
    /\ sess[s].flushTimeout
    /\ CallFlush("timer", 0, [sess EXCEPT ![s].flushTimeout = FALSE])
    /\ UNCHANGED <<battleVars, grindSessions, gc, collector, persisted, clicksAccepted,
                   lostAtReplace, restVars>>

\* /collect: await flushSession(interaction.user.id, false)
CollectFlush ==
    /\ FlushNeeded
    /\ CallFlush("collect", 0, sess)
    /\ UNCHANGED <<battleVars, grindSessions, gc, collector, persisted, clicksAccepted,
                   lostAtReplace, restVars>>

\* collector.on('end'): await flushSession(odId, true)
CollectorEnd(g) ==
    /\ collector[g] = "live"
    /\ CallFlush("end", g, sess)
    /\ collector' = IF FlushNeeded THEN [collector EXCEPT ![g] = "ending"]
                    ELSE collectorAfterFlush("end", g)
    /\ UNCHANGED <<battleVars, grindSessions, gc, persisted, clicksAccepted, lostAtReplace, restVars>>

\* collector.on('end'): after the final embed, grindSessions.delete(odId)
CollectorDelete(g) ==
    /\ collector[g] = "update"
    /\ grindSessions' = 0
    /\ collector' = [collector EXCEPT ![g] = "ended"]
    /\ UNCHANGED <<battleVars, sess, fl, gc, persisted, clicksAccepted, lostAtReplace, restVars>>

\* flushSession: await addResources(session.guildId, goldToFlush, xpToFlush)
FlushWrite(f) ==
    /\ fl[f].pc = "write"
    /\ gold' = [gold EXCEPT ![Grinder] = @ + fl[f].gold]
    /\ xp' = [xp EXCEPT ![Grinder] = @ + fl[f].xp]
    /\ fl' = [fl EXCEPT ![f].pc = "stats", ![f].rowGold = gold'[Grinder],
                        ![f].rowXp = xp'[Grinder], ![f].rowLevel = level[Grinder]]
    /\ persisted' = [persisted EXCEPT ![fl[f].s].gold = @ + fl[f].gold,
                                      ![fl[f].s].xp = @ + fl[f].xp]
    /\ UNCHANGED <<level, cooldownVars, tallyVars, upgrade_level, grindStatVars,
                   battles, hd, msg, timer, historyVars,
                   grindSessions, sess, gc, collector, clicksAccepted, lostAtReplace, restVars>>

\* flushSession: await incrementStats(session.guildId, {...})
FlushStats(f) ==
    /\ fl[f].pc = "stats"
    /\ lifetime_grind_gold' = [lifetime_grind_gold EXCEPT ![Grinder] = @ + fl[f].gold]
    /\ lifetime_grind_clicks' = [lifetime_grind_clicks EXCEPT ![Grinder] = @ + fl[f].clicks]
    /\ fl' = [fl EXCEPT ![f].pc = "peak"]
    /\ UNCHANGED <<gold, xp, level, cooldownVars, tallyVars, upgrade_level,
                   lifetime_grind_sessions, peak_gold_balance,
                   battles, hd, msg, timer, historyVars,
                   grindSessions, sess, gc, collector, persisted, clicksAccepted,
                   lostAtReplace, restVars>>

\* flushSession: await updatePeakGold, then the flushed tracking and the loop of
\* checkAndApplyLevelUp on the row addResources returned; without a level gained
\* flushSession returns to its caller
FlushPeak(f) ==
    /\ fl[f].pc = "peak"
    /\ peak_gold_balance' = [peak_gold_balance EXCEPT ![Grinder] = Max(@, fl[f].rowGold)]
    /\ sess' = [sess EXCEPT ![fl[f].s] = markFlushed(@)]
    /\ IF levelAfter(fl[f].rowXp, fl[f].rowLevel) > fl[f].rowLevel
       THEN /\ fl' = [fl EXCEPT ![f].pc = "level"]
            /\ UNCHANGED <<gc, collector>>
       ELSE /\ fl' = [fl EXCEPT ![f] = [NoFlush EXCEPT !.pc = "done"]]
            /\ gc' = gcAfterFlush(fl[f].origin, fl[f].owner)
            /\ collector' = collectorAfterFlush(fl[f].origin, fl[f].owner)
    /\ UNCHANGED <<gold, xp, level, cooldownVars, tallyVars, upgrade_level,
                   lifetime_grind_gold, lifetime_grind_clicks, lifetime_grind_sessions,
                   battles, hd, msg, timer, historyVars,
                   grindSessions, persisted, clicksAccepted, lostAtReplace, restVars>>

\* checkAndApplyLevelUp: await updateLevel(guild.id, currentLevel); then
\* flushSession returns to its caller
FlushLevel(f) ==
    /\ fl[f].pc = "level"
    /\ level' = [level EXCEPT ![Grinder] = levelAfter(fl[f].rowXp, fl[f].rowLevel)]
    /\ fl' = [fl EXCEPT ![f] = [NoFlush EXCEPT !.pc = "done"]]
    /\ gc' = gcAfterFlush(fl[f].origin, fl[f].owner)
    /\ collector' = collectorAfterFlush(fl[f].origin, fl[f].owner)
    /\ UNCHANGED <<gold, xp, cooldownVars, tallyVars, upgrade_level, grindStatVars,
                   battles, hd, msg, timer, historyVars,
                   grindSessions, sess, persisted, clicksAccepted, lostAtReplace, restVars>>

\* flushSession: addResources, incrementStats or updatePeakGold throws; the catch
\* block logs the error and flushSession returns to its caller.  Each of the
\* three is a statement of its own: what the earlier ones wrote stays written,
\* and the flushed tracking of the session is not advanced
FlushFails(f) ==
    /\ fl[f].pc \in {"write", "stats", "peak"}
    /\ fl' = [fl EXCEPT ![f] = [NoFlush EXCEPT !.pc = "done"]]
    /\ gc' = gcAfterFlush(fl[f].origin, fl[f].owner)
    /\ collector' = collectorAfterFlush(fl[f].origin, fl[f].owner)
    /\ UNCHANGED <<battleVars, grindSessions, sess, persisted, clicksAccepted,
                   lostAtReplace, restVars>>

\* no flushSession call is between its first await and its return
FlushesReturned == \A f \in Flushes : fl[f].pc \in {"free", "done"}

(***************************************************************************)
(* database/prestige.js and commands/prestige.js.  executePrestige is one  *)
(* database transaction on its own pooled connection (READ COMMITTED): its *)
(* writes are pending until COMMIT, its UPDATE of the guild row holds the  *)
(* row lock until the transaction ends, and a ROLLBACK discards them.      *)
(***************************************************************************)
MaxPrestiges == 2
Prestiges == 1 .. MaxPrestiges
Prestiger == 1

\* config.js PRESTIGE
MIN_LEVEL == 50
LEVEL_INCREMENT == 10
MAX_REQUIREMENT == 75
\* calculateStartingValues: the base values of a prestiged guild
STARTING_GOLD == 25
STARTING_ADVENTURERS == 5
STARTING_ADVENTURER_CAPACITY == 10

\* guild_prestige_upgrades of a guild: the levels of Veteran Recruiters
\* (starting_adventurers) and Bigger Barracks (starting_capacity)
PrestigeUpgradeKinds == {"starting_adventurers", "starting_capacity"}
NoPrestigeUpgrades == [k \in PrestigeUpgradeKinds |-> 0]

\* seed: point_costs and the per-level bonuses of calculateStartingValues
point_costs(kind) == IF kind = "starting_adventurers" THEN <<1, 2, 2, 3, 4>> ELSE <<1, 2, 3, 4, 5>>
advBonuses == <<2, 2, 3, 4, 5>>
capBonuses == <<5, 7, 8, 10, 15>>

RECURSIVE SumFirst(_, _)
SumFirst(seq, n) == IF n = 0 THEN 0 ELSE seq[n] + SumFirst(seq, n - 1)

getPrestigeRequirement(currentPrestigeLevel) ==
    Min(MIN_LEVEL + currentPrestigeLevel * LEVEL_INCREMENT, MAX_REQUIREMENT)

\* canPrestige(guild).eligible
canPrestige(guild) == guild.level >= getPrestigeRequirement(guild.prestige_level)

\* calculatePrestigeRewards(guild).totalPoints
calculatePrestigeRewards(guild) == 1 + Min(3, (guild.level - 50) \div 10)

calculateStartingValues(pu) ==
    [gold |-> STARTING_GOLD,
     adventurers |-> STARTING_ADVENTURERS + SumFirst(advBonuses, pu["starting_adventurers"]),
     capacity |-> STARTING_ADVENTURER_CAPACITY + SumFirst(capBonuses, pu["starting_capacity"])]

\* the committed guilds row of g, as SELECT * FROM guilds reads it
GuildRow(g) ==
    [level |-> level[g], xp |-> xp[g], gold |-> gold[g],
     adventurer_count |-> adventurer_count[g],
     adventurer_capacity |-> adventurer_capacity[g],
     prestige_level |-> prestige_level[g], prestige_points |-> prestige_points[g],
     lifetime_prestiges |-> lifetime_prestiges[g],
     last_collected_at |-> last_collected_at[g]]

\* the guilds row of g becomes r; deleted are the guilds whose guild_upgrades
\* rows go away
WriteRow(g, r, deleted) ==
    /\ level' = [level EXCEPT ![g] = r.level]
    /\ xp' = [xp EXCEPT ![g] = r.xp]
    /\ gold' = [gold EXCEPT ![g] = r.gold]
    /\ adventurer_count' = [adventurer_count EXCEPT ![g] = r.adventurer_count]
    /\ adventurer_capacity' = [adventurer_capacity EXCEPT ![g] = r.adventurer_capacity]
    /\ prestige_level' = [prestige_level EXCEPT ![g] = r.prestige_level]
    /\ prestige_points' = [prestige_points EXCEPT ![g] = r.prestige_points]
    /\ lifetime_prestiges' = [lifetime_prestiges EXCEPT ![g] = r.lifetime_prestiges]
    /\ last_collected_at' = [last_collected_at EXCEPT ![g] = r.last_collected_at]
    /\ upgrade_level' = [x \in Guilds |-> IF x \in deleted THEN 0 ELSE upgrade_level[x]]

\* one handlePrestigeConfirmModal invocation: the guild, the prestige
\* upgrades it read, the row executePrestige selected, the parameters $2..$5
\* of its UPDATE, the row that UPDATE was applied to, the writes of the open
\* transaction, and the time of its BEGIN, which is what NOW() returns in it
NoTx ==
    [pc |-> "idle", g |-> 0, pu |-> NoPrestigeUpgrades, row |-> <<>>, goldParam |-> 0, began |-> 0,
     advParam |-> 0, capParam |-> 0, pointsParam |-> 0, applied |-> <<>>,
     pending |-> <<>>, deleted |-> {}, success |-> FALSE]

\* the UPDATE of executePrestige without the reset of xp
prestigedRowKeepsXp(row, t) ==
    [row EXCEPT !.level = 1, !.gold = t.goldParam,
                !.adventurer_count = t.advParam, !.adventurer_capacity = t.capParam,
                !.prestige_level = @ + 1, !.prestige_points = @ + t.pointsParam,
                !.lifetime_prestiges = @ + 1, !.last_collected_at = t.began]

\* the UPDATE guilds ... of executePrestige, applied to the current row
prestigedRow(row, t) ==
    [row EXCEPT !.level = 1, !.xp = 0, !.gold = t.goldParam,
                !.adventurer_count = t.advParam, !.adventurer_capacity = t.capParam,
                !.prestige_level = @ + 1, !.prestige_points = @ + t.pointsParam,
                !.lifetime_prestiges = @ + 1, !.last_collected_at = t.began]

\* DELETE FROM guild_upgrades without its WHERE clause
deleteGuildUpgradesOfAll(guildId) == Guilds

\* DELETE FROM guild_upgrades WHERE guild_id = $1: the guilds that lose rows
deleteGuildUpgrades(guildId) == {guildId}

\* a ROLLBACK that keeps what the transaction wrote
rollbackKeepsWrites(committed, pending) ==
    IF pending = <<>> THEN committed ELSE pending[1]

\* ROLLBACK: the row is the committed one, whatever the transaction wrote
rollback(committed, pending) == committed

\* exactly the prestige columns of other invocations and other tables
txFrame ==
    UNCHANGED <<cooldownVars, tallyVars, grindStatVars, battles, hd, msg, timer,
                historyVars, grindVars, auto_prestige_enabled, guild_prestige_upgrades,
                cl, otherVars, now, globalCooldown, purchaseVars>>

\* handlePrestigeConfirmModal up to the call of executePrestige
PrestigeConfirm(p, g) ==
    /\ tx[p].pc = "idle"
    /\ tx' = [tx EXCEPT ![p] = [NoTx EXCEPT !.pc = "begin", !.g = g,
                                            !.pu = guild_prestige_upgrades[g]]]
    /\ UNCHANGED <<battleVars, grindVars, prestigeColumns, rowLock, cl, otherVars, clockVars, purchaseVars>>

\* BEGIN, SELECT * FROM guilds, the eligibility check and the computation of
\* the new values; a guild that is not eligible throws, which rolls back
TxSelect(p) ==
    /\ tx[p].pc = "begin"
    /\ LET row == GuildRow(tx[p].g)
           start == calculateStartingValues(tx[p].pu)
       IN  tx' = [tx EXCEPT ![p] =
                    IF canPrestige(row)
                    THEN [@ EXCEPT !.pc = "update", !.row = row, !.began = now,
                                   !.goldParam = start.gold,
                                   !.advParam = start.adventurers,
                                   !.capParam = start.capacity,
                                   !.pointsParam = calculatePrestigeRewards(row)]
                    ELSE [@ EXCEPT !.pc = "failed", !.row = row]]
    /\ UNCHANGED <<battleVars, grindVars, prestigeColumns, rowLock, cl, otherVars, clockVars, purchaseVars>>

\* UPDATE guilds SET ...: waits for the row lock, then applies to the row as
\* committed at that moment
TxUpdate(p) ==
    /\ tx[p].pc = "update"
    /\ rowLock[tx[p].g] = 0
    /\ rowLock' = [rowLock EXCEPT ![tx[p].g] = p]
    /\ tx' = [tx EXCEPT ![p].pc = "delete",
                        ![p].applied = <<GuildRow(tx[p].g)>>,
                        ![p].pending = <<prestigedRow(GuildRow(tx[p].g), tx[p])>>]
    /\ UNCHANGED <<battleVars, grindVars, prestigeColumns, cl, otherVars, clockVars, purchaseVars>>

\* DELETE FROM guild_upgrades WHERE guild_id = $1
TxDelete(p) ==
    /\ tx[p].pc = "delete"
    /\ tx' = [tx EXCEPT ![p].pc = "commit", ![p].deleted = deleteGuildUpgrades(tx[p].g)]
    /\ UNCHANGED <<battleVars, grindVars, prestigeColumns, rowLock, cl, otherVars, clockVars, purchaseVars>>

\* the final SELECT and COMMIT
TxCommit(p) ==
    /\ tx[p].pc = "commit"
    /\ WriteRow(tx[p].g, tx[p].pending[1], tx[p].deleted)
    /\ rowLock' = [rowLock EXCEPT ![tx[p].g] = 0]
    /\ tx' = [tx EXCEPT ![p].pc = "done", ![p].success = TRUE]
    /\ txFrame

\* a statement of the open transaction fails (connection error, statement
\* timeout): the catch block rolls back and returns success: false
TxFail(p) ==
    /\ tx[p].pc \in {"update", "delete", "commit"}
    /\ WriteRow(tx[p].g, rollback(GuildRow(tx[p].g), tx[p].pending), {})
    /\ rowLock' = [rowLock EXCEPT ![tx[p].g] = IF @ = p THEN 0 ELSE @]
    /\ tx' = [tx EXCEPT ![p].pc = "failed", ![p].success = FALSE]
    /\ txFrame

\* purchasePrestigeUpgrade, its transaction taken as one step
PurchasePrestigeUpgrade(g, kind) ==
    LET currentLevel == guild_prestige_upgrades[g][kind]
    IN  /\ rowLock[g] = 0
        /\ currentLevel < Len(point_costs(kind))
        /\ prestige_points[g] >= point_costs(kind)[currentLevel + 1]
        /\ prestige_points' = [prestige_points EXCEPT ![g] = @ - point_costs(kind)[currentLevel + 1]]
        /\ guild_prestige_upgrades' = [guild_prestige_upgrades EXCEPT ![g][kind] = @ + 1]
        /\ UNCHANGED <<battleVars, grindVars, adventurer_count, adventurer_capacity,
                       prestige_level, auto_prestige_enabled, lifetime_prestiges,
                       tx, rowLock, cl, otherVars, clockVars, purchaseVars>>

\* handlePrestigeBuySelect invocations of one run
MaxPurchases == 2
Purchases == 1 .. MaxPurchases

NoPurchase ==
    [pc |-> "idle", g |-> 0, kind |-> "none", currentLevel |-> 0, cost |-> 0]

\* the frame of a step of purchasePrestigeUpgrade that writes nothing
purchaseFrame ==
    UNCHANGED <<battleVars, grindVars, prestigeVars, otherVars, clockVars,
                guild_scouts_level, modal>>

\* purchasePrestigeUpgrade, statement by statement on its own connection
\* (READ COMMITTED).  BEGIN, the SELECT of the upgrade and the SELECT of the
\* owned level: "already at max level" throws, else the cost of the next
\* level is point_costs[currentLevel]
PurchaseSelectLevel(q, g, kind) ==
    LET currentLevel == guild_prestige_upgrades[g][kind]
    IN  /\ buy[q].pc = "idle"
        /\ IF q = 1 THEN TRUE ELSE buy[q - 1].pc # "idle"
        /\ buy' = [buy EXCEPT ![q] =
                      IF currentLevel >= Len(point_costs(kind))
                      THEN [NoPurchase EXCEPT !.pc = "failed", !.g = g, !.kind = kind]
                      ELSE [pc |-> "points", g |-> g, kind |-> kind,
                            currentLevel |-> currentLevel,
                            cost |-> point_costs(kind)[currentLevel + 1]]]
        /\ purchaseFrame

\* SELECT prestige_points FROM guilds: "not enough prestige points" throws
PurchaseSelectPoints(q) ==
    /\ buy[q].pc = "points"
    /\ buy' = [buy EXCEPT ![q].pc = IF prestige_points[buy[q].g] < buy[q].cost
                                    THEN "failed" ELSE "write"]
    /\ purchaseFrame

\* UPDATE guilds SET prestige_points = prestige_points - $1
deductPoints(points, cost) == points - cost

\* the UPDATE of guilds, which waits for the row lock of an open prestige
\* transaction, then the INSERT (no level owned when read) or the UPDATE
\* level = level + 1, and COMMIT.  The INSERT of a row that exists by now
\* violates the primary key: ROLLBACK.  From the UPDATE of guilds to COMMIT
\* the transaction holds the row lock, so the three are one step
PurchaseWrite(q) ==
    LET g == buy[q].g
        kind == buy[q].kind
    IN  /\ buy[q].pc = "write"
        /\ rowLock[g] = 0
        /\ IF buy[q].currentLevel = 0 /\ guild_prestige_upgrades[g][kind] # 0
           THEN /\ buy' = [buy EXCEPT ![q].pc = "failed"]
                /\ UNCHANGED <<prestige_points, guild_prestige_upgrades>>
           ELSE /\ prestige_points' =
                      [prestige_points EXCEPT ![g] = deductPoints(@, buy[q].cost)]
                /\ guild_prestige_upgrades' =
                      [guild_prestige_upgrades EXCEPT ![g][kind] = @ + 1]
                /\ buy' = [buy EXCEPT ![q].pc = "done"]
        /\ UNCHANGED <<battleVars, grindVars, adventurer_count, adventurer_capacity,
                       prestige_level, auto_prestige_enabled, lifetime_prestiges,
                       tx, rowLock, cl, otherVars, clockVars, guild_scouts_level, modal>>

\* toggleAutoPrestige
ToggleAutoPrestige(g) ==
    /\ rowLock[g] = 0
    /\ auto_prestige_enabled' = [auto_prestige_enabled EXCEPT ![g] = ~@]
    /\ UNCHANGED <<battleVars, grindVars, adventurer_count, adventurer_capacity,
                   prestige_level, prestige_points, lifetime_prestiges,
                   guild_prestige_upgrades, tx, rowLock, cl, otherVars, clockVars, purchaseVars>>

(***************************************************************************)
(* commands/collect.js, for the player who owns guild Prestiger.  What     *)
(* calculateIdleEarningsWithData returns (gold, xp and adventurers gained  *)
(* over the elapsed time) is an input of the handler.                      *)
(***************************************************************************)
MaxCollects == 2
Collects == 1 .. MaxCollects

\* seed: Job Board, +3 adventurer capacity per level; upgrade_level is its level
JOB_BOARD_CAPACITY == 3
\* earnings.goldEarned, earnings.xpEarned and earnings.adventurersGained
CollectGold == {30}
CollectXp == {10}
CollectAdventurers == {0, 5}

\* calculateUpgradeBonuses(upgrades).adventurerCapacityBonus
adventurerCapacityBonus(upgradeLevel) == JOB_BOARD_CAPACITY * upgradeLevel

\* game/idle.js getEffectiveCapacity
getEffectiveCapacity(guild, bonus) == guild.adventurer_capacity + bonus

\* the new adventurer count of execute
newAdventurerCount(guild, bonus, adventurersGained) ==
    IF adventurersGained > 0
    THEN Min(guild.adventurer_count + adventurersGained, getEffectiveCapacity(guild, bonus))
    ELSE guild.adventurer_count

\* one /collect invocation: what it read (auto-prestige flag, eligibility,
\* number of prestiges so far), what it is about to write, and the row its
\* UPDATE returned
NoCollect ==
    [pc |-> "idle", auto |-> FALSE, eligible |-> FALSE, prestiges |-> 0, goldEarned |-> 0,
     xpEarned |-> 0, newCount |-> 0, rowXp |-> 0, rowLevel |-> 0]

\* execute up to the UPDATE: flushSession finds no session, getGuildWithData
\* reads the guild with its upgrades, the earnings are computed
CollectRead(k, goldEarned, xpEarned, adventurersGained) ==
    /\ cl[k].pc = "idle"
    /\ LET guild == GuildRow(Prestiger)
           bonus == adventurerCapacityBonus(upgrade_level[Prestiger])
       IN  cl' = [cl EXCEPT ![k] =
                    [NoCollect EXCEPT !.pc = "write",
                                      !.auto = auto_prestige_enabled[Prestiger],
                                      !.eligible = canPrestige(guild),
                                      !.prestiges = guild.lifetime_prestiges,
                                      !.goldEarned = goldEarned, !.xpEarned = xpEarned,
                                      !.newCount = newAdventurerCount(guild, bonus, adventurersGained)]]
    /\ UNCHANGED <<battleVars, grindVars, prestigeColumns, tx, rowLock, otherVars, clockVars, purchaseVars>>

\* database/guilds.js collectResourcesFull: one UPDATE ... RETURNING *
CollectWrite(k) ==
    /\ cl[k].pc = "write"
    /\ rowLock[Prestiger] = 0
    /\ gold' = [gold EXCEPT ![Prestiger] = @ + cl[k].goldEarned]
    /\ xp' = [xp EXCEPT ![Prestiger] = @ + cl[k].xpEarned]
    /\ adventurer_count' = [adventurer_count EXCEPT ![Prestiger] = cl[k].newCount]
    /\ peak_gold_balance' = [peak_gold_balance EXCEPT
                               ![Prestiger] = Max(@, gold[Prestiger] + cl[k].goldEarned)]
    /\ last_collected_at' = [last_collected_at EXCEPT ![Prestiger] = now]
    /\ cl' = [cl EXCEPT ![k].pc = "level", ![k].rowXp = xp[Prestiger] + cl[k].xpEarned,
                        ![k].rowLevel = level[Prestiger]]
    /\ UNCHANGED <<level, cooldownVars, tallyVars, upgrade_level, lifetime_grind_gold,
                   lifetime_grind_clicks, lifetime_grind_sessions, battles, hd, msg, timer,
                   historyVars, grindVars, adventurer_capacity, prestige_level,
                   prestige_points, auto_prestige_enabled, lifetime_prestiges,
                   guild_prestige_upgrades, tx, rowLock, otherVars, now, globalCooldown,
                   purchaseVars>>

\* game/leveling.js checkAndApplyLevelUp on the returned row, and the reply;
\* the handler ends here
CollectLevel(k) ==
    /\ cl[k].pc = "level"
    /\ LET newLevel == levelAfter(cl[k].rowXp, cl[k].rowLevel)
       IN  IF newLevel > cl[k].rowLevel
           THEN /\ rowLock[Prestiger] = 0
                /\ level' = [level EXCEPT ![Prestiger] = newLevel]
           ELSE UNCHANGED level
    /\ cl' = [cl EXCEPT ![k] = [NoCollect EXCEPT !.pc = "done", !.auto = cl[k].auto,
                                              !.eligible = cl[k].eligible,
                                              !.prestiges = cl[k].prestiges]]
    /\ UNCHANGED <<gold, xp, cooldownVars, tallyVars, upgrade_level, grindStatVars,
                   battles, hd, msg, timer, historyVars, grindVars, prestigeColumns,
                   tx, rowLock, otherVars, clockVars, purchaseVars>>

(***************************************************************************)
(* game/idle.js: calculateRates and calculateIdleEarnings of a guild       *)
(* without shop upgrades.  Time is carried in minutes.                     *)
(***************************************************************************)
MAX_IDLE_HOURS == 24
\* PRESTIGE.GOLD_BONUS_PER_LEVEL and XP_BONUS_PER_LEVEL, in percent
GOLD_BONUS_PER_LEVEL == 5
XP_BONUS_PER_LEVEL == 5
hourBonuses == <<2, 2, 4>>

\* calculatePrestigeBonuses: the compounded base multiplier as a fraction
\* and the hours added by Time Warp
prestigeMultiplier(bonusPercent, prestigeLevel) ==
    [num |-> Pow(100 + bonusPercent, prestigeLevel), den |-> Pow(100, prestigeLevel)]
maxIdleHoursBonus(timeWarpLevel) == SumFirst(hourBonuses, timeWarpLevel)

\* Math.floor of (adventurers * base rate * rank multiplier) * prestige multiplier
calculateRates(guild) ==
    LET gm == prestigeMultiplier(GOLD_BONUS_PER_LEVEL, guild.prestige_level)
        xm == prestigeMultiplier(XP_BONUS_PER_LEVEL, guild.prestige_level)
    IN  [goldPerHour |-> (guild.adventurer_count * BASE_GOLD_PER_HOUR
                             * rankMultiplier10(guild.level) * gm.num) \div (10 * gm.den),
         xpPerHour |-> (guild.adventurer_count * BASE_XP_PER_HOUR * xm.num) \div xm.den]

\* roll: Math.random() < doubleGoldChance
calculateIdleEarnings(guild, timeWarpLevel, luckyCoinLevel, minutesElapsed, roll) ==
    LET rates == calculateRates(guild)
        maxIdleHours == MAX_IDLE_HOURS + maxIdleHoursBonus(timeWarpLevel)
        cappedMinutes == Min(minutesElapsed, maxIdleHours * 60)
        goldEarned == (rates.goldPerHour * cappedMinutes) \div 60
        doubledGold == luckyCoinLevel > 0 /\ roll
    IN  [goldEarned |-> IF doubledGold THEN goldEarned * 2 ELSE goldEarned,
         xpEarned |-> (rates.xpPerHour * cappedMinutes) \div 60,
         rates |-> rates, maxIdleHours |-> maxIdleHours, doubledGold |-> doubledGold,
         cappedMinutes |-> cappedMinutes, wasCapped |-> minutesElapsed > maxIdleHours * 60]

\* the arguments of one call of calculateIdleEarnings
IdleAdventurers == {5, 10}
IdleLevels == {1, 5}
IdlePrestigeLevels == {0, 1}
IdleUpgradeLevels == {0, 1, 3}
IdleMinutes == {0, 30, 13 * 60, 24 * 60, 26 * 60, 100 * 60}
NoIdleCall ==
    [guild |-> [adventurer_count |-> 0, level |-> 1, prestige_level |-> 0],
     timeWarpLevel |-> 0, luckyCoinLevel |-> 0, minutesElapsed |-> 0, roll |-> FALSE,
     returned |-> FALSE, goldEarned |-> 0, xpEarned |-> 0,
     rates |-> [goldPerHour |-> 0, xpPerHour |-> 0], maxIdleHours |-> 0,
     doubledGold |-> FALSE, cappedMinutes |-> 0, wasCapped |-> FALSE]

\* the call returns
IdleEarningsReturn ==
    /\ ~idleCall.returned
    /\ LET e == calculateIdleEarnings(idleCall.guild, idleCall.timeWarpLevel,
                                      idleCall.luckyCoinLevel, idleCall.minutesElapsed,
                                      idleCall.roll)
       IN  idleCall' = [idleCall EXCEPT !.returned = TRUE, !.goldEarned = e.goldEarned,
                                          !.xpEarned = e.xpEarned, !.rates = e.rates,
                                          !.maxIdleHours = e.maxIdleHours,
                                          !.doubledGold = e.doubledGold,
                                          !.cappedMinutes = e.cappedMinutes,
                                          !.wasCapped = e.wasCapped]
    /\ UNCHANGED <<battleVars, grindVars, prestigeVars, revengeExpired, rewardsCall,
                   powerCall, purchaseFailures, levelCall, clockVars, purchaseVars>>

\* a minute passes
MaxTime == 3
Tick ==
    /\ now < MaxTime
    /\ now' = now + 1
    /\ UNCHANGED <<battleVars, grindVars, prestigeVars, otherVars, last_collected_at,
                   globalCooldown, purchaseVars>>

\* /collect up to the UPDATE, with the earnings computed from the row's
\* last_collected_at; under one minute the handler replies "just returned"
CollectReadAt(k) ==
    LET guild == GuildRow(Prestiger)
        minutesElapsed == now - last_collected_at[Prestiger]
        e == calculateIdleEarnings(guild, 0, 0, minutesElapsed, FALSE)
    IN  IF minutesElapsed < 1
        THEN /\ cl[k].pc = "idle"
             /\ cl' = [cl EXCEPT ![k].pc = "done"]
             /\ UNCHANGED <<battleVars, grindVars, prestigeColumns, tx, rowLock, otherVars,
                            clockVars, purchaseVars>>
        ELSE CollectRead(k, e.goldEarned, e.xpEarned, 0)

\* the arguments of one call of calculateBattleRewards
RewardBets == {0, 40, 70}
RewardGolds == {0, 30, 100, 3000}
RewardXps == {0, 100}
NoRewardsCall ==
    [betAmount |-> 0, loserGold |-> 0, loserXp |-> 0, strongerWon |-> FALSE,
     isCapped |-> FALSE, attackerLost |-> FALSE, xpPercent |-> 1, cappedPercent |-> 1,
     returned |-> FALSE, goldTransfer |-> 0, xpBonus |-> 0, wasCapped |-> FALSE]

\* the call returns
RewardsReturn ==
    /\ ~rewardsCall.returned
    /\ LET r == calculateBattleRewards(rewardsCall.betAmount, rewardsCall.loserGold,
                                       rewardsCall.loserXp, rewardsCall.strongerWon,
                                       rewardsCall.isCapped, rewardsCall.attackerLost,
                                       rewardsCall.xpPercent, rewardsCall.cappedPercent)
       IN  rewardsCall' = [rewardsCall EXCEPT !.returned = TRUE,
                                              !.goldTransfer = r.goldTransfer,
                                              !.xpBonus = r.xpBonus,
                                              !.wasCapped = r.wasCapped]
    /\ UNCHANGED <<battleVars, grindVars, prestigeVars, revengeExpired, powerCall, idleCall,
                   purchaseFailures, levelCall, clockVars, purchaseVars>>

\* the powers of one call
Powers == 0 .. MaxPower
NoPowerCall ==
    [attackerPower |-> 0, defenderPower |-> 0,
     chanceReturned |-> FALSE, winChance |-> [num |-> 0, den |-> 1],
     typeReturned |-> FALSE, type |-> "none", requiresConsent |-> FALSE]

\* calculateWinChance returns
WinChanceReturn ==
    /\ ~powerCall.chanceReturned
    /\ powerCall' = [powerCall EXCEPT
           !.chanceReturned = TRUE,
           !.winChance = calculateWinChance(powerCall.attackerPower, powerCall.defenderPower)]
    /\ UNCHANGED <<battleVars, grindVars, prestigeVars, revengeExpired, rewardsCall, idleCall,
                   purchaseFailures, levelCall, clockVars, purchaseVars>>

\* getBattleType(calculatePowerRatio(attackerPower, defenderPower)) returns
BattleTypeReturn ==
    /\ ~powerCall.typeReturned
    /\ LET t == getBattleType(powerCall.attackerPower, powerCall.defenderPower)
       IN  powerCall' = [powerCall EXCEPT !.typeReturned = TRUE, !.type = t,
                                          !.requiresConsent = requiresConsent(t)]
    /\ UNCHANGED <<battleVars, grindVars, prestigeVars, revengeExpired, rewardsCall, idleCall,
                   purchaseFailures, levelCall, clockVars, purchaseVars>>

\* no prestige transaction, no /collect handler, no expired revenge window
RestIdle ==
    /\ tx = [p \in Prestiges |-> NoTx]
    /\ rowLock = [g \in Guilds |-> 0]
    /\ cl = [k \in Collects |-> NoCollect]
    /\ revengeExpired = [h \in Handlers |-> FALSE]
    /\ rewardsCall = NoRewardsCall
    /\ powerCall = NoPowerCall
    /\ idleCall = NoIdleCall
    /\ purchaseFailures = 0
    /\ levelCall = [n \in LevelCalls |-> NoLevelCall]
    /\ now = 0
    /\ globalCooldown = GLOBAL_COOLDOWN_MS
    /\ buy = [q \in Purchases |-> NoPurchase]
    /\ guild_scouts_level = [g \in Guilds |-> 0]
    /\ modal = [m \in Modals |-> NoModal]
    /\ last_collected_at = [g \in Guilds |-> 0]

\* the prestige columns of guilds that never prestiged
PrestigeColumnsInit ==
    /\ adventurer_count = InitAdventurers
    /\ adventurer_capacity = InitCapacity
    /\ prestige_level = [g \in Guilds |-> 0]
    /\ prestige_points = [g \in Guilds |-> 0]
    /\ auto_prestige_enabled = [g \in Guilds |-> FALSE]
    /\ lifetime_prestiges = [g \in Guilds |-> 0]
    /\ guild_prestige_upgrades = [g \in Guilds |-> NoPrestigeUpgrades]

GrindIdle ==
    /\ grindSessions = 0
    /\ sess = [s \in Sessions |-> NoSession]
    /\ fl = [f \in Flushes |-> NoFlush]
    /\ gc = [g \in Sessions |-> "idle"]
    /\ collector = [g \in Sessions |-> "none"]
    /\ persisted = [s \in Sessions |-> [gold |-> 0, xp |-> 0]]
    /\ clicksAccepted = 0
    /\ lostAtReplace = 0

\* no battle recorded yet: the daily count restarts at the first battle
NoBattlesYet ==
    /\ battles_today = [g \in Guilds |-> 0]
    /\ last_battle_reset = [g \in Guilds |-> 0]

\* no guild owns an upgrade
NoUpgrades == upgrade_level = [g \in Guilds |-> 0]

TablesInit ==
    /\ lifetime_grind_gold = [g \in Guilds |-> 0]
    /\ lifetime_grind_clicks = [g \in Guilds |-> 0]
    /\ lifetime_grind_sessions = [g \in Guilds |-> 0]
    /\ peak_gold_balance = InitGold
    /\ last_battle_at = [g \in Guilds |-> -1]
    /\ lifetime_battles_won = [g \in Guilds |-> 0]
    /\ lifetime_battles_lost = [g \in Guilds |-> 0]
    /\ battles = <<>>
    /\ hd = [h \in Handlers |-> NoHandler]
    /\ msg = [h \in Handlers |-> "none"]
    /\ timer = [h \in Handlers |-> "none"]
    /\ executed = [h \in Handlers |-> 0]
    /\ timerRefunds = [h \in Handlers |-> 0]
    /\ declineRefunds = [h \in Handlers |-> 0]
    /\ atkDelta = [h \in Handlers |-> 0]
    /\ defDelta = [h \in Handlers |-> 0]
    /\ debited = [g \in Guilds |-> 0]
    /\ credited = [g \in Guilds |-> 0]
    /\ lockFailures = 0

Init ==
    /\ gold = InitGold /\ xp = InitXp /\ level = InitLevel
    /\ TablesInit /\ NoBattlesYet /\ NoUpgrades /\ GrindIdle /\ PrestigeColumnsInit /\ RestIdle

\* the steps every handler and timer takes once started
Steps ==
    \/ \E h \in Handlers : LockBet(h)
    \/ \E h \in Handlers : PostChallenge(h)
    \/ \E h \in Handlers : PostChallengeFails(h)
    \/ \E c \in Handlers : TimerFetch(c)
    \/ \E c \in Handlers : TimerFetchFails(c)
    \/ \E c \in Handlers : TimerRefund(c)
    \/ \E c \in Handlers : TimerEdit(c)
    \/ \E h \in Handlers : ApplyResults(h)
    \/ \E h \in Handlers : RecordInsert(h)
    \/ \E h \in Handlers : RecordCooldown(h)
    \/ \E h \in Handlers : SendResult(h)
    \/ \E h \in Handlers : DeclineUpdate(h)

(***************************************************************************)
(* Spec: one consent-tier challenge of the attacker against guild 2, and   *)
(* up to MaxClicks clicks on its buttons, racing each other and the timer. *)
(***************************************************************************)
ClickSlots == 2 .. (1 + MaxClicks)

Next ==
    \/ \E bet \in Bets : BattleCommand(1, 2, bet)
    \/ \E h \in ClickSlots, u \in Clickers : InOrder(h, 2) /\ AcceptClick(h, u, 1)
    \/ \E h \in ClickSlots, u \in Clickers : InOrder(h, 2) /\ DeclineClick(h, u, 1)
    \/ Steps

Spec == Init /\ [][Next]_vars

(***************************************************************************)
(* SpecEscrow: up to MaxCommands /battle commands of the attacker against  *)
(* any player, upgrade purchases, and one click on a challenge.            *)
(***************************************************************************)
CommandSlots == 1 .. MaxCommands

NextEscrow ==
    \/ \E h \in CommandSlots, target \in Users, bet \in Bets :
            InOrder(h, 1) /\ BattleCommand(h, target, bet)
    \/ \E c \in CommandSlots : AcceptClick(MaxCommands + 1, 2, c)
    \/ \E c \in CommandSlots : DeclineClick(MaxCommands + 1, 2, c)
    \/ \E cost \in Costs : PurchaseUpgrade(cost)
    \/ Steps

SpecEscrow == Init /\ [][NextEscrow]_vars

(***************************************************************************)
(* SpecGrind: the player starts up to MaxSessions grind sessions, clicks,  *)
(* runs /collect, and the debounce timers and the collectors' ends fire.   *)
(* Guild 1 starts three XP short of level 3.                               *)
(***************************************************************************)
GrindInitXp == [InitXp EXCEPT ![Grinder] = getTotalXpForLevel(3) - 3]

InitGrind ==
    /\ gold = InitGold /\ xp = GrindInitXp /\ level = InitLevel
    /\ TablesInit /\ NoBattlesYet /\ NoUpgrades /\ GrindIdle /\ PrestigeColumnsInit /\ RestIdle

NextGrind ==
    \/ \E g \in Sessions : GrindCommand(g)
    \/ \E g \in Sessions : GrindCreate(g)
    \/ \E g \in Sessions : GrindStats(g)
    \/ \E g \in Sessions : GrindReply(g)
    \/ \E g \in Sessions : GrindClick(g)
    \/ \E s \in Sessions : FlushTimerFires(s)
    \/ CollectFlush
    \/ \E g \in Sessions : CollectorEnd(g)
    \/ \E g \in Sessions : CollectorDelete(g)
    \/ \E f \in Flushes : FlushWrite(f)
    \/ \E f \in Flushes : FlushStats(f)
    \/ \E f \in Flushes : FlushPeak(f)
    \/ \E f \in Flushes : FlushLevel(f)

SpecGrind == InitGrind /\ [][NextGrind]_vars

(***************************************************************************)
(* SpecFlushFail: one grind session whose flushes never overlap (a flush   *)
(* starts only when the one before has returned) and whose persistence     *)
(* calls may throw.                                                        *)
(***************************************************************************)
NextFlushFail ==
    \/ GrindCommand(1)
    \/ GrindCreate(1)
    \/ GrindStats(1)
    \/ GrindReply(1)
    \/ GrindClick(1)
    \/ \E s \in Sessions : FlushesReturned /\ FlushTimerFires(s)
    \/ FlushesReturned /\ CollectFlush
    \/ \E f \in Flushes : FlushWrite(f)
    \/ \E f \in Flushes : FlushStats(f)
    \/ \E f \in Flushes : FlushPeak(f)
    \/ \E f \in Flushes : FlushLevel(f)
    \/ \E f \in Flushes : FlushFails(f)

SpecFlushFail == InitGrind /\ [][NextFlushFail]_vars

(***************************************************************************)
(* SpecCooldown: a build whose GLOBAL_COOLDOWN_MS is not zero.  The        *)
(* attacker issues up to MaxCommands /battle commands against guild 2      *)
(* (consent tier), the defender accepts each challenge at most once, and   *)
(* time passes.                                                            *)
(***************************************************************************)
\* non-zero values of GLOBAL_COOLDOWN_MS, in minutes
CooldownConfigs == {1, 2}

InitCooldown ==
    /\ gold = InitGold /\ xp = InitXp /\ level = InitLevel
    /\ TablesInit /\ NoBattlesYet /\ NoUpgrades /\ GrindIdle /\ PrestigeColumnsInit
    /\ tx = [p \in Prestiges |-> NoTx]
    /\ rowLock = [g \in Guilds |-> 0]
    /\ cl = [k \in Collects |-> NoCollect]
    /\ revengeExpired = [h \in Handlers |-> FALSE]
    /\ rewardsCall = NoRewardsCall
    /\ powerCall = NoPowerCall
    /\ idleCall = NoIdleCall
    /\ purchaseFailures = 0
    /\ levelCall = [n \in LevelCalls |-> NoLevelCall]
    /\ now = 0
    /\ last_collected_at = [g \in Guilds |-> 0]
    /\ globalCooldown \in CooldownConfigs
    /\ buy = [q \in Purchases |-> NoPurchase]
    /\ guild_scouts_level = [g \in Guilds |-> 0]
    /\ modal = [m \in Modals |-> NoModal]

NextCooldown ==
    \/ \E h \in 1 .. MaxCommands, bet \in Bets : InOrder(h, 1) /\ BattleCommand(h, 2, bet)
    \/ \E c \in 1 .. MaxCommands : AcceptClick(MaxCommands + c, 2, c)
    \/ \E h \in Handlers : LockBet(h)
    \/ \E h \in Handlers : PostChallenge(h)
    \/ \E h \in Handlers : ApplyResults(h)
    \/ \E h \in Handlers : RecordInsert(h)
    \/ \E h \in Handlers : RecordCooldown(h)
    \/ \E h \in Handlers : SendResult(h)
    \/ Tick

SpecCooldown == InitCooldown /\ [][NextCooldown]_vars

(***************************************************************************)
(* SpecRevenge: one consent-tier battle of the attacker against guild 2,   *)
(* accepted by its defender, and up to MaxRevenges clicks on the buttons   *)
(* under its result, while the attacker buys upgrades.                     *)
(***************************************************************************)
MaxRevenges == 2
RevengeSlots == 3 .. (2 + MaxRevenges)

NextRevenge ==
    \/ \E bet \in Bets : BattleCommand(1, 2, bet)
    \/ AcceptClick(2, 2, 1)
    \/ \E h \in RevengeSlots, u \in Clickers : InOrder(h, 3) /\ FreeRevengeClick(h, u, 1)
    \/ \E h \in RevengeSlots : InOrder(h, 3) /\ MatchBetClick(h, 2, 1)
    \/ RevengeWindowEnds(1)
    \/ \E cost \in Costs : PurchaseUpgrade(cost)
    \/ \E h \in Handlers : LockBet(h)
    \/ \E h \in Handlers : PostChallenge(h)
    \/ \E h \in Handlers : ApplyResults(h)
    \/ \E h \in Handlers : RecordInsert(h)
    \/ \E h \in Handlers : RecordCooldown(h)
    \/ \E h \in Handlers : SendResult(h)
    \/ \E h \in Handlers : FreeRevengeRead(h)
    \/ \E h \in Handlers : ApplyFreeRevenge(h)
    \/ \E h \in Handlers : SendRevengeResult(h)
    \/ \E h \in Handlers : CounterRead(h)

SpecRevenge == Init /\ [][NextRevenge]_vars

(***************************************************************************)
(* SpecLimit: the world of SpecEscrow on a day on which the attacker has   *)
(* already fought one battle less than the daily limit.                    *)
(***************************************************************************)
BattlesBefore == [g \in Guilds |-> IF g = Attacker THEN DAILY_BATTLE_LIMIT - 1 ELSE 0]

InitLimit ==
    /\ gold = InitGold /\ xp = InitXp /\ level = InitLevel
    /\ battles_today = BattlesBefore
    /\ last_battle_reset = [g \in Guilds |-> IF g = Attacker THEN Today ELSE 0]
    /\ TablesInit /\ NoUpgrades /\ GrindIdle /\ PrestigeColumnsInit /\ RestIdle

SpecLimit == InitLimit /\ [][NextEscrow]_vars

(***************************************************************************)
(* SpecPrestige: guild 1 has reached level 50 and never prestiged.  Its    *)
(* player confirms the prestige up to MaxPrestiges times, runs /collect,   *)
(* buys prestige upgrades and toggles auto-prestige; a statement of a      *)
(* prestige transaction may fail.  Guild 1 owns one level of Job Board,    *)
(* guild 2 two.                                                            *)
(***************************************************************************)
PrestigeInitXp == [InitXp EXCEPT ![Prestiger] = getTotalXpForLevel(51) - 10]
PrestigeInitLevel == [InitLevel EXCEPT ![Prestiger] = 50]
PrestigeInitUpgrades == [g \in Guilds |-> IF g = 3 THEN 0 ELSE g]

InitPrestige ==
    /\ gold = InitGold /\ xp = PrestigeInitXp /\ level = PrestigeInitLevel
    /\ upgrade_level = PrestigeInitUpgrades
    /\ TablesInit /\ NoBattlesYet /\ GrindIdle /\ PrestigeColumnsInit /\ RestIdle

\* the invocations are numbered in the order they start
TxInOrder(p) == IF p = 1 THEN TRUE ELSE tx[p - 1].pc # "idle"
CollectInOrder(k) == IF k = 1 THEN TRUE ELSE cl[k - 1].pc # "idle"
\* one /collect beside the prestige transactions
PrestigeCollects == {1}

NextPrestige ==
    \/ \E p \in Prestiges : TxInOrder(p) /\ PrestigeConfirm(p, Prestiger)
    \/ \E p \in Prestiges : TxSelect(p)
    \/ \E p \in Prestiges : TxUpdate(p)
    \/ \E p \in Prestiges : TxDelete(p)
    \/ \E p \in Prestiges : TxCommit(p)
    \/ \E p \in Prestiges : TxFail(p)
    \/ \E kind \in PrestigeUpgradeKinds : PurchasePrestigeUpgrade(Prestiger, kind)
    \/ ToggleAutoPrestige(Prestiger)
    \/ \E k \in PrestigeCollects, g \in CollectGold, x \in CollectXp, a \in CollectAdventurers :
            CollectInOrder(k) /\ CollectRead(k, g, x, a)
    \/ \E k \in PrestigeCollects : CollectWrite(k)
    \/ \E k \in PrestigeCollects : CollectLevel(k)

SpecPrestige == InitPrestige /\ [][NextPrestige]_vars

(***************************************************************************)
(* SpecReset: guild 1 prestiges once while the clock runs and one /collect *)
(* of the same guild runs beside it.                                       *)
(***************************************************************************)
NextReset ==
    \/ PrestigeConfirm(1, Prestiger)
    \/ TxSelect(1)
    \/ TxUpdate(1)
    \/ TxDelete(1)
    \/ TxCommit(1)
    \/ TxFail(1)
    \/ Tick
    \/ \E g \in CollectGold, x \in CollectXp, a \in CollectAdventurers : CollectRead(1, g, x, a)
    \/ CollectWrite(1)
    \/ CollectLevel(1)

SpecReset == InitPrestige /\ [][NextReset]_vars

(***************************************************************************)
(* SpecPurchase: guild 1 prestiges once, which earns it a prestige point,  *)
(* and the player picks upgrades in the prestige shop up to MaxPurchases   *)
(* times; the purchases run beside each other and beside the prestige.     *)
(***************************************************************************)
NextPurchase ==
    \/ PrestigeConfirm(1, Prestiger)
    \/ TxSelect(1)
    \/ TxUpdate(1)
    \/ TxDelete(1)
    \/ TxCommit(1)
    \/ TxFail(1)
    \/ \E q \in Purchases, kind \in PrestigeUpgradeKinds : PurchaseSelectLevel(q, Prestiger, kind)
    \/ \E q \in Purchases : PurchaseSelectPoints(q)
    \/ \E q \in Purchases : PurchaseWrite(q)

SpecPurchase == InitPrestige /\ [][NextPurchase]_vars

(***************************************************************************)
(* SpecLevel: guild 1 starts one XP short of level 3.  Its player issues   *)
(* one /battle command against guild 3 (normal tier, the winner gains an   *)
(* XP bonus) and up to MaxCollects /collect commands, overlapping or not.  *)
(***************************************************************************)
LevelInitXp == [InitXp EXCEPT ![Prestiger] = getTotalXpForLevel(3) - 1]
\* earnings.xpEarned of a short and of a long absence
LevelCollectXp == {10, 130}

InitLevelUp ==
    /\ gold = InitGold /\ xp = LevelInitXp /\ level = InitLevel
    /\ TablesInit /\ NoBattlesYet /\ NoUpgrades /\ GrindIdle /\ PrestigeColumnsInit /\ RestIdle

NextLevel ==
    \/ \E bet \in Bets : BattleCommand(1, 3, bet)
    \/ ApplyResults(1)
    \/ RecordInsert(1)
    \/ RecordCooldown(1)
    \/ SendResult(1)
    \/ \E k \in Collects, g \in CollectGold, x \in LevelCollectXp :
            CollectInOrder(k) /\ CollectRead(k, g, x, 0)
    \/ \E k \in Collects : CollectWrite(k)
    \/ \E k \in Collects : CollectLevel(k)

SpecLevel == InitLevelUp /\ [][NextLevel]_vars

(***************************************************************************)
(* SpecModal: the attacker has saved 2000 gold, owns no Guild Scouts and   *)
(* submits the quantity modal of /upgrade up to MaxModals times,           *)
(* overlapping or not.                                                     *)
(***************************************************************************)
ModalInitGold == [InitGold EXCEPT ![Attacker] = 2000]

InitModal ==
    /\ gold = ModalInitGold /\ xp = InitXp /\ level = InitLevel
    /\ TablesInit /\ NoBattlesYet /\ NoUpgrades /\ GrindIdle /\ PrestigeColumnsInit /\ RestIdle

NextModal ==
    \/ \E m \in Modals, text \in QuantityInputs : ModalSubmit(m, text)
    \/ \E m \in Modals : ModalLevel(m)
    \/ \E m \in Modals : ModalPurchase(m)

SpecModal == InitModal /\ [][NextModal]_vars

(***************************************************************************)
(* SpecRewards: one call of calculateBattleRewards on any arguments and    *)
(* any random draws.                                                       *)
(***************************************************************************)
InitRewards ==
    /\ gold = InitGold /\ xp = InitXp /\ level = InitLevel
    /\ TablesInit /\ NoBattlesYet /\ NoUpgrades /\ GrindIdle /\ PrestigeColumnsInit
    /\ tx = [p \in Prestiges |-> NoTx]
    /\ rowLock = [g \in Guilds |-> 0]
    /\ cl = [k \in Collects |-> NoCollect]
    /\ revengeExpired = [h \in Handlers |-> FALSE]
    /\ powerCall = NoPowerCall
    /\ idleCall = NoIdleCall
    /\ purchaseFailures = 0
    /\ levelCall = [n \in LevelCalls |-> NoLevelCall]
    /\ now = 0
    /\ globalCooldown = GLOBAL_COOLDOWN_MS
    /\ buy = [q \in Purchases |-> NoPurchase]
    /\ guild_scouts_level = [g \in Guilds |-> 0]
    /\ modal = [m \in Modals |-> NoModal]
    /\ last_collected_at = [g \in Guilds |-> 0]
    /\ \E b \in RewardBets, lg \in RewardGolds, lx \in RewardXps, sw \in BOOLEAN,
          cp \in BOOLEAN, al \in BOOLEAN, xpp \in RandomPercents, cpp \in RandomPercents :
            rewardsCall = [NoRewardsCall EXCEPT !.betAmount = b, !.loserGold = lg,
                                                !.loserXp = lx, !.strongerWon = sw,
                                                !.isCapped = cp, !.attackerLost = al,
                                                !.xpPercent = xpp, !.cappedPercent = cpp]

NextRewards == RewardsReturn

SpecRewards == InitRewards /\ [][NextRewards]_vars

(***************************************************************************)
(* SpecReject: up to MaxCommands /battle commands of the attacker against  *)
(* any player, itself included, with any bet, and upgrade purchases the    *)
(* attacker can or cannot afford.                                          *)
(***************************************************************************)
NextReject ==
    \/ \E h \in CommandSlots, target \in Users, bet \in Bets :
            InOrder(h, 1) /\ BattleCommand(h, target, bet)
    \/ \E cost \in Costs : PurchaseUpgrade(cost)
    \/ \E cost \in Costs : PurchaseUpgradeFails(cost)
    \/ \E h \in CommandSlots : LockBet(h)
    \/ \E h \in CommandSlots : PostChallenge(h)
    \/ \E h \in CommandSlots : ApplyResults(h)
    \/ \E h \in CommandSlots : RecordInsert(h)
    \/ \E h \in CommandSlots : RecordCooldown(h)
    \/ \E h \in CommandSlots : SendResult(h)

SpecReject == Init /\ [][NextReject]_vars

(***************************************************************************)
(* SpecAtomic: up to MaxCommands /battle commands of the attacker against  *)
(* guild 3 (normal tier), where any database call of executeBattle may     *)
(* throw.                                                                  *)
(***************************************************************************)
NextAtomic ==
    \/ \E h \in CommandSlots, bet \in Bets : InOrder(h, 1) /\ BattleCommand(h, 3, bet)
    \/ \E h \in CommandSlots : ApplyResults(h)
    \/ \E h \in CommandSlots : ApplyResultsFails(h)
    \/ \E h \in CommandSlots : RecordInsert(h)
    \/ \E h \in CommandSlots : RecordInsertFails(h)
    \/ \E h \in CommandSlots : RecordCooldown(h)
    \/ \E h \in CommandSlots : RecordCooldownFails(h)
    \/ \E h \in CommandSlots : SendResult(h)

SpecAtomic == Init /\ [][NextAtomic]_vars

(***************************************************************************)
(* SpecCollect: up to MaxCollects /collect commands of one player, at any  *)
(* minutes of the clock, overlapping or not.                               *)
(***************************************************************************)
NextCollect ==
    \/ Tick
    \/ \E k \in Collects : CollectInOrder(k) /\ CollectReadAt(k)
    \/ \E k \in Collects : CollectWrite(k)
    \/ \E k \in Collects : CollectLevel(k)

SpecCollect == Init /\ [][NextCollect]_vars

(***************************************************************************)
(* SpecPower: one call of calculateWinChance and one of getBattleType on   *)
(* any pair of finite non-negative powers.                                 *)
(***************************************************************************)
InitPower ==
    /\ gold = InitGold /\ xp = InitXp /\ level = InitLevel
    /\ TablesInit /\ NoBattlesYet /\ NoUpgrades /\ GrindIdle /\ PrestigeColumnsInit
    /\ tx = [p \in Prestiges |-> NoTx]
    /\ rowLock = [g \in Guilds |-> 0]
    /\ cl = [k \in Collects |-> NoCollect]
    /\ revengeExpired = [h \in Handlers |-> FALSE]
    /\ rewardsCall = NoRewardsCall
    /\ idleCall = NoIdleCall
    /\ purchaseFailures = 0
    /\ levelCall = [n \in LevelCalls |-> NoLevelCall]
    /\ now = 0
    /\ globalCooldown = GLOBAL_COOLDOWN_MS
    /\ buy = [q \in Purchases |-> NoPurchase]
    /\ guild_scouts_level = [g \in Guilds |-> 0]
    /\ modal = [m \in Modals |-> NoModal]
    /\ last_collected_at = [g \in Guilds |-> 0]
    /\ \E a \in Powers, d \in Powers :
          powerCall = [NoPowerCall EXCEPT !.attackerPower = a, !.defenderPower = d]

NextPower == WinChanceReturn \/ BattleTypeReturn

SpecPower == InitPower /\ [][NextPower]_vars

(***************************************************************************)
(* SpecIdle: one call of calculateIdleEarnings on any guild, any owned     *)
(* Time Warp and Lucky Coin levels, any elapsed time and any draw.  A      *)
(* guild owns prestige upgrades only after a prestige.                     *)
(***************************************************************************)
\* the state before one call whose elapsed time is drawn from minutes
IdleCallOn(minutes) ==
    /\ gold = InitGold /\ xp = InitXp /\ level = InitLevel
    /\ TablesInit /\ NoBattlesYet /\ NoUpgrades /\ GrindIdle /\ PrestigeColumnsInit
    /\ tx = [p \in Prestiges |-> NoTx]
    /\ rowLock = [g \in Guilds |-> 0]
    /\ cl = [k \in Collects |-> NoCollect]
    /\ revengeExpired = [h \in Handlers |-> FALSE]
    /\ rewardsCall = NoRewardsCall
    /\ powerCall = NoPowerCall
    /\ purchaseFailures = 0
    /\ levelCall = [n \in LevelCalls |-> NoLevelCall]
    /\ now = 0
    /\ globalCooldown = GLOBAL_COOLDOWN_MS
    /\ buy = [q \in Purchases |-> NoPurchase]
    /\ guild_scouts_level = [g \in Guilds |-> 0]
    /\ modal = [m \in Modals |-> NoModal]
    /\ last_collected_at = [g \in Guilds |-> 0]
    /\ \E a \in IdleAdventurers, l \in IdleLevels, pl \in IdlePrestigeLevels,
          tw \in IdleUpgradeLevels, lc \in IdleUpgradeLevels, m \in minutes,
          r \in BOOLEAN :
            /\ pl = 0 => (tw = 0 /\ lc = 0)
            /\ idleCall = [NoIdleCall EXCEPT
                   !.guild = [adventurer_count |-> a, level |-> l, prestige_level |-> pl],
                   !.timeWarpLevel = tw, !.luckyCoinLevel = lc,
                   !.minutesElapsed = m, !.roll = r]

InitIdle == IdleCallOn(IdleMinutes)

NextIdle == IdleEarningsReturn

SpecIdle == InitIdle /\ [][NextIdle]_vars

(***************************************************************************)
(* SpecSkew: one call of calculateIdleEarnings on a guild whose            *)
(* last_collected_at, written by the database's NOW(), is before, at or    *)
(* after the bot's new Date().                                             *)
(***************************************************************************)
SkewedMinutes == {0 - 90, 0 - 1, 0, 30, 26 * 60}

InitSkew == IdleCallOn(SkewedMinutes)

SpecSkew == InitSkew /\ [][NextIdle]_vars

(***************************************************************************)
(* SpecLevelUp: checkAndApplyLevelUp called twice in a row on one guild,   *)
(* the second time on the row the first call left.  The stored level of    *)
(* the guild is any level its xp has already paid for.                     *)
(***************************************************************************)
LevelCallXps == {0, 10, 66, 67, 157, 158, 280, 281, 446, 1000, 5000, 100000, 2000000}
MaxInputLevel == 12

\* checkAndApplyLevelUp calling updateLevel whether or not a level was gained
checkAndApplyLevelUpAlwaysWrites(n) ==
    LET guild == [xp |-> xp[LevelGuild], level |-> level[LevelGuild]]
        currentLevel == levelAfter(guild.xp, guild.level)
        levelsGained == currentLevel - guild.level
    IN  /\ ~levelCall[n].returned
        /\ IF n = 1 THEN TRUE ELSE levelCall[n - 1].returned
        /\ level' = [level EXCEPT ![LevelGuild] = currentLevel]
        /\ levelCall' = [levelCall EXCEPT ![n] =
                            [returned |-> TRUE, guild |-> guild, newLevel |-> currentLevel,
                             levelsGained |-> levelsGained, leveledUp |-> levelsGained > 0,
                             wrote |-> TRUE]]
        /\ UNCHANGED <<gold, xp, cooldownVars, tallyVars, upgrade_level, grindStatVars,
                       battles, hd, msg, timer, historyVars, grindVars, prestigeVars,
                       revengeExpired, rewardsCall, powerCall, idleCall, purchaseFailures,
                       clockVars, purchaseVars>>

\* game/leveling.js checkAndApplyLevelUp(guild), guild being the current row
checkAndApplyLevelUp(n) ==
    LET guild == [xp |-> xp[LevelGuild], level |-> level[LevelGuild]]
        currentLevel == levelAfter(guild.xp, guild.level)
        levelsGained == currentLevel - guild.level
    IN  /\ ~levelCall[n].returned
        /\ IF n = 1 THEN TRUE ELSE levelCall[n - 1].returned
        /\ IF levelsGained > 0
           THEN level' = [level EXCEPT ![LevelGuild] = currentLevel]
           ELSE UNCHANGED level
        /\ levelCall' = [levelCall EXCEPT ![n] =
                            [returned |-> TRUE, guild |-> guild, newLevel |-> currentLevel,
                             levelsGained |-> levelsGained, leveledUp |-> levelsGained > 0,
                             wrote |-> levelsGained > 0]]
        /\ UNCHANGED <<gold, xp, cooldownVars, tallyVars, upgrade_level, grindStatVars,
                       battles, hd, msg, timer, historyVars, grindVars, prestigeVars,
                       revengeExpired, rewardsCall, powerCall, idleCall, purchaseFailures,
                       clockVars, purchaseVars>>

InitLevelCall ==
    /\ gold = InitGold
    /\ TablesInit /\ NoBattlesYet /\ NoUpgrades /\ GrindIdle /\ PrestigeColumnsInit
    /\ RestIdle
    /\ \E x \in LevelCallXps, l \in 1 .. MaxInputLevel :
          /\ getTotalXpForLevel(l) <= x
          /\ xp = [InitXp EXCEPT ![LevelGuild] = x]
          /\ level = [InitLevel EXCEPT ![LevelGuild] = l]

NextLevelCall == \E n \in LevelCalls : checkAndApplyLevelUp(n)

SpecLevelUp == InitLevelCall /\ [][NextLevelCall]_vars

(***************************************************************************)
(* Properties.                                                             *)
(***************************************************************************)
\* the bet of challenge c has been escrowed: lockBetGold succeeded
Escrowed(c) ==
    /\ hd[c].kind = "battle" /\ hd[c].type = "consent"
    /\ hd[c].pc \in {"post", "done"} /\ ~hd[c].rejected

\* handler h is a click on a button of challenge c
ClickOn(h, c) == hd[h].kind \in {"accept", "decline"} /\ hd[h].c = c

\* C1: for no challenge is the battle executed and the escrowed bet also
\* refunded by the expiry timer.
C1_AcceptExcludesExpiry ==
    \A c \in Handlers : ~(executed[c] >= 1 /\ timerRefunds[c] >= 1)

\* C2: across decline clicks and the expiry timer, the escrowed bet of a
\* challenge is credited back to the attacker at most once.
C2_RefundedAtMostOnce ==
    \A c \in Handlers : timerRefunds[c] + declineRefunds[c] <= 1

\* C3: a challenge takes at most one transition out of PENDING_CONSENT (accept,
\* decline or expiry apply their effects at most once in total), and its battle
\* is executed at most once.
C3_TerminalStates ==
    \A c \in Handlers :
        /\ executed[c] <= 1
        /\ executed[c] + timerRefunds[c] + declineRefunds[c] <= 1

\* C4: a click on accept or decline that is not rejected comes from the
\* targeted defender of the challenge.
C4_OnlyDefenderClicks ==
    \A h \in Handlers :
        (hd[h].kind \in {"accept", "decline"} /\ ~hd[h].rejected)
            => hd[h].user = hd[h].target

\* C5: when a consent-tier challenge was accepted and the attacker lost, and
\* nothing else happened to the challenge, the attacker has lost exactly the
\* bet over escrow and resolution, and the defender has gained exactly the bet.
C5_AttackerForfeitsExactlyBet ==
    \A c \in Handlers :
        (/\ Escrowed(c)
         /\ executed[c] = 1 /\ timerRefunds[c] = 0 /\ declineRefunds[c] = 0
         /\ \E h \in Handlers : /\ hd[h].kind = "accept" /\ hd[h].c = c
                                /\ hd[h].pc \in {"record", "cooldown", "reply", "done"}
                                /\ ~hd[h].rejected /\ ~hd[h].won)
            => (atkDelta[c] = - hd[c].bet /\ defDelta[c] = hd[c].bet)

C7_UnansweredIsRefunded ==
    \A c \in Handlers :
        (/\ Escrowed(c) /\ hd[c].pc = "done"
         /\ timer[c] \in {"none", "done"}
         /\ \A h \in Handlers : ~ClickOn(h, c))
            => timerRefunds[c] >= 1

\* the escrow step of handler h, as the claim wants it: the bet is debited if
\* and only if the attacker's gold covers it, and nothing else of gold changes
EscrowStepOk(h) ==
    (hd[h].pc = "lock" /\ hd'[h].pc # "lock")
        => IF gold[hd[h].user] >= hd[h].bet
           THEN /\ gold' = [gold EXCEPT ![hd[h].user] = @ - hd[h].bet]
                /\ ~hd'[h].rejected
           ELSE /\ gold' = gold
                /\ hd'[h].rejected

\* C8: escrow debits the bet only if the gold covers it; whatever the attacker
\* escrows, spends and loses never exceeds what they held or received, so no
\* balance is ever negative and every debit is accounted for.
C8_EscrowNeverOvercommits ==
    /\ [](\A g \in Guilds : /\ gold[g] >= 0
                            /\ gold[g] = InitGold[g] + credited[g] - debited[g]
                            /\ debited[g] <= InitGold[g] + credited[g])
    /\ [][\A h \in Handlers : EscrowStepOk(h)]_vars

\* one challenge is pending with its bet in escrow while a second escrow of the
\* same attacker has been refused for lack of gold
C8_EscrowRefused ==
    \E c1, c2 \in Handlers :
        /\ c1 # c2
        /\ Escrowed(c1) /\ executed[c1] = 0 /\ timerRefunds[c1] = 0 /\ declineRefunds[c1] = 0
        /\ hd[c2].kind = "battle" /\ hd[c2].type = "consent" /\ hd[c2].rejected
        /\ lockFailures >= 1

\* C9: what the flushes have persisted for a session never exceeds what the
\* session has accumulated.
C9_PersistedWithinSession ==
    \A s \in Sessions :
        /\ persisted[s].gold <= sess[s].sessionGold
        /\ persisted[s].xp <= sess[s].sessionXp

\* C10: the store holds at most one session of the player, and a session that
\* /grind replaces holds no unflushed gold at the moment it is replaced.
C10_ReplacedSessionIsFlushed ==
    /\ grindSessions \in 0 .. MaxSessions
    /\ lostAtReplace = 0

\* the handler h has run its results transaction
Applied(h) == hd[h].pc \in {"record", "cooldown", "reply", "done"} /\ ~hd[h].rejected

C12_WithinEffectiveCapacity ==
    \A g \in Guilds :
        adventurer_count[g] <= adventurer_capacity[g] + adventurerCapacityBonus(upgrade_level[g])

\* C13: a step in which executePrestige fails (the guild is not eligible, or a
\* statement fails before or after the UPDATE or after the DELETE) leaves the
\* committed guild rows and the owned upgrades as they were, releases the row
\* lock and reports success = false.
C13_FailedPrestigeChangesNothing ==
    [][\A p \in Prestiges :
          (tx[p].pc # "failed" /\ tx'[p].pc = "failed") =>
              /\ level' = level /\ xp' = xp /\ gold' = gold
              /\ prestige_level' = prestige_level /\ prestige_points' = prestige_points
              /\ adventurer_count' = adventurer_count
              /\ adventurer_capacity' = adventurer_capacity
              /\ lifetime_prestiges' = lifetime_prestiges
              /\ upgrade_level' = upgrade_level
              /\ guild_prestige_upgrades' = guild_prestige_upgrades
              /\ ~tx'[p].success
              /\ rowLock'[tx[p].g] # p]_vars

\* a prestige failed after its UPDATE and its DELETE had run
C13_RolledBackAfterDelete ==
    \E p \in Prestiges :
        /\ tx[p].pc = "failed" /\ tx[p].pending # <<>> /\ tx[p].deleted # {}
        /\ level[tx[p].g] = tx[p].row.level /\ upgrade_level[tx[p].g] > 0

\* C14: a committed prestige was applied to a guild row that met the level
\* requirement, and no two committed prestiges were decided on the same row.
C14_PrestigeOnlyWhenEligible ==
    /\ \A p \in Prestiges : tx[p].pc = "done" => canPrestige(tx[p].applied[1])
    /\ \A p, q \in Prestiges :
          (p # q /\ tx[p].pc = "done" /\ tx[q].pc = "done") => tx[p].row # tx[q].row

\* C15: the step that commits a prestige of guild g leaves g without regular
\* upgrades, keeps every guild's prestige upgrades, lowers no lifetime counter
\* and changes no column and no upgrade of another guild.
C15_PrestigeFrame ==
    [][\A p \in Prestiges :
          (tx[p].pc = "commit" /\ tx'[p].pc = "done") =>
              /\ upgrade_level'[tx[p].g] = 0
              /\ guild_prestige_upgrades' = guild_prestige_upgrades
              /\ lifetime_battles_won' = lifetime_battles_won
              /\ lifetime_battles_lost' = lifetime_battles_lost
              /\ lifetime_grind_gold' = lifetime_grind_gold
              /\ lifetime_grind_clicks' = lifetime_grind_clicks
              /\ lifetime_grind_sessions' = lifetime_grind_sessions
              /\ peak_gold_balance' = peak_gold_balance
              /\ lifetime_prestiges'[tx[p].g] >= lifetime_prestiges[tx[p].g]
              /\ \A x \in Guilds \ {tx[p].g} :
                    /\ upgrade_level'[x] = upgrade_level[x]
                    /\ level'[x] = level[x] /\ xp'[x] = xp[x] /\ gold'[x] = gold[x]
                    /\ adventurer_count'[x] = adventurer_count[x]
                    /\ adventurer_capacity'[x] = adventurer_capacity[x]
                    /\ prestige_level'[x] = prestige_level[x]
                    /\ prestige_points'[x] = prestige_points[x]
                    /\ lifetime_prestiges'[x] = lifetime_prestiges[x]]_vars

\* a prestige of guild 1 has committed: its Job Board is gone, guild 2's is not
C15_PrestigeCommitted ==
    \E p \in Prestiges :
        /\ tx[p].pc = "done" /\ tx[p].success
        /\ upgrade_level[tx[p].g] = 0 /\ upgrade_level[2] > 0
        /\ prestige_level[tx[p].g] > 0

\* C16: a /collect that found the auto-prestige flag enabled and the guild
\* eligible has prestiged the guild by the time it ends.
C16_AutoPrestigeOnCollect ==
    \A k \in Collects :
        (cl[k].pc = "done" /\ cl[k].auto /\ cl[k].eligible) =>
            lifetime_prestiges[Prestiger] > cl[k].prestiges

\* C17: for each battle result at most one free revenge is applied.
C17_FreeRevengeOnce == \A c \in Handlers : Cardinality(RevengesApplied(c)) <= 1

\* the handler h is a free revenge its revenger lost
LostRevenge(h) ==
    /\ hd[h].kind = "revenge" /\ ~hd[h].won
    /\ hd[h].pc \in {"apply", "record", "cooldown", "reply"}

\* C18: no step of a free revenge the revenger lost changes any gold or xp;
\* its results transaction adds 1 to the revenger's lifetime_battles_lost and
\* to the original attacker's lifetime_battles_won and touches no other tally;
\* the battle it records has bet 0 and transfers 0.
C18_LostRevengeCostsNothing ==
    [][\A h \in Handlers :
          (LostRevenge(h) /\ hd'[h] # hd[h]) =>
              /\ gold' = gold /\ xp' = xp
              /\ hd[h].pc = "apply" =>
                    /\ lifetime_battles_lost' =
                          [lifetime_battles_lost EXCEPT ![hd[h].user] = @ + 1]
                    /\ lifetime_battles_won' =
                          [lifetime_battles_won EXCEPT ![hd[h].target] = @ + 1]
              /\ hd[h].pc = "record" =>
                    battles' = Append(battles,
                        [attacker_id |-> hd[h].user, defender_id |-> hd[h].target,
                         bet_amount |-> 0, winner_id |-> hd[h].target,
                         gold_transferred |-> 0, xp_transferred |-> 0])]_vars

\* a lost free revenge has ended whose reward, had it been won, was positive
C18_RevengeLost ==
    \E h \in Handlers :
        /\ hd[h].kind = "revenge" /\ hd[h].pc = "done" /\ ~hd[h].rejected
        /\ ~hd[h].won /\ hd[h].goldTransfer > 0

\* C19: the battles a guild initiated today, those before the start and those
\* recorded since, are at most DAILY_BATTLE_LIMIT.
C19_DailyLimitRespected ==
    \A g \in Guilds :
        BattlesBefore[g] + Cardinality({i \in DOMAIN battles : battles[i].attacker_id = g})
            <= DAILY_BATTLE_LIMIT

C21_WinChanceWithinBounds ==
    powerCall.chanceReturned =>
        /\ powerCall.winChance.den > 0
        /\ 35 * powerCall.winChance.den <= powerCall.winChance.num
        /\ powerCall.winChance.num <= 65 * powerCall.winChance.den
        /\ powerCall.attackerPower = powerCall.defenderPower =>
              powerCall.winChance.num = 50 * powerCall.winChance.den

\* the call returned for two zero powers
C21_BothZero ==
    /\ powerCall.chanceReturned
    /\ powerCall.attackerPower = 0 /\ powerCall.defenderPower = 0

\* C22: the tier is normal iff stronger / weaker < 3, capped iff 3 <= ratio <
\* 5 and consent iff ratio >= 5 or the weaker power is 0; consent is required
\* exactly in the consent tier; equal positive powers are normal, two zero
\* powers are consent.
C22_RiskTierBoundaries ==
    powerCall.typeReturned =>
        LET stronger == Max(powerCall.attackerPower, powerCall.defenderPower)
            weaker == Min(powerCall.attackerPower, powerCall.defenderPower)
        IN  /\ powerCall.type \in {"normal", "capped", "consent"}
            /\ powerCall.type = "normal" <=> (weaker > 0 /\ stronger < 3 * weaker)
            /\ powerCall.type = "capped" <=>
                  (weaker > 0 /\ 3 * weaker <= stronger /\ stronger < 5 * weaker)
            /\ powerCall.type = "consent" <=> (weaker = 0 \/ stronger >= 5 * weaker)
            /\ powerCall.requiresConsent <=> powerCall.type = "consent"
            /\ (weaker > 0 /\ stronger = weaker) => powerCall.type = "normal"
            /\ stronger = 0 => powerCall.type = "consent"

\* C22 as stated: any two equal powers give tier normal
C22_EqualPowersAreNormal ==
    (powerCall.typeReturned /\ powerCall.attackerPower = powerCall.defenderPower) =>
        powerCall.type = "normal"

\* the call returned capped for a ratio of exactly 3
C22_RatioExactlyThree ==
    /\ powerCall.typeReturned /\ powerCall.type = "capped"
    /\ powerCall.attackerPower = 9 /\ powerCall.defenderPower = 3

\* C23: calculateIdleEarnings returns at most goldPerHour x maxIdleHours gold
\* and xpPerHour x maxIdleHours xp, maxIdleHours being 24 plus the Time Warp
\* hours, however long the elapsed time.
C23_EarningsWithinCeiling ==
    idleCall.returned =>
        /\ idleCall.maxIdleHours = MAX_IDLE_HOURS + maxIdleHoursBonus(idleCall.timeWarpLevel)
        /\ idleCall.goldEarned <= idleCall.rates.goldPerHour * idleCall.maxIdleHours
        /\ idleCall.xpEarned <= idleCall.rates.xpPerHour * idleCall.maxIdleHours

\* the tables: every column of guilds, the owned upgrades, the battle ledger
tables == <<guildVars, prestigeColumns, battles>>

Quiescent == \A h \in Handlers : hd[h].pc \in {"free", "done", "failed"}

\* C25: when no battle is in progress, the battles whose gold, xp and
\* lifetime tallies were applied are exactly the battles in the ledger, and the
\* attacker's cooldown columns were updated iff a battle is in the ledger.
C25_BattleResolutionAtomic ==
    Quiescent =>
        /\ lifetime_battles_won[1] + lifetime_battles_won[2] + lifetime_battles_won[3]
              = Len(battles)
        /\ lifetime_battles_lost[1] + lifetime_battles_lost[2] + lifetime_battles_lost[3]
              = Len(battles)
        /\ last_battle_reset[Attacker] = Today <=> Len(battles) > 0

\* C26: the button collector of a replaced session leaves the session that
\* replaced it alone: the flush started by the 'end' handler of the collector
\* of /grind number g works on session g and on no other.
C26_OldTasksLeaveNewSessionAlone ==
    \A f \in Flushes :
        (fl[f].origin = "end" /\ fl[f].pc \notin {"free", "done"}) => fl[f].s = fl[f].owner

\* the session s was stored and is no longer, and no flush is in flight
Ended(s) ==
    /\ sess[s].goldPerClick > 0 /\ grindSessions # s
    /\ \A f \in Flushes : fl[f].pc \in {"free", "done"}

\* C27: once a session has ended and every flush has returned, the gold and xp
\* persisted for it are not below goldPerClick and xpPerClick times the clicks
\* it accepted.
C27_NoAcceptedClickLost ==
    \A s \in Sessions :
        Ended(s) =>
            /\ persisted[s].gold >= sess[s].goldPerClick * sess[s].totalClicks
            /\ persisted[s].xp >= sess[s].xpPerClick * sess[s].totalClicks

\* C28: over an escrowed challenge that was accepted and resolved once, and
\* neither expired nor declined, the gold the challenge took from the attacker
\* and the defender together is zero: what one lost the other gained, the
\* escrowed bet included.
C28_GoldConservedOverChallenge ==
    \A c \in Handlers :
        (/\ Escrowed(c)
         /\ executed[c] = 1 /\ timerRefunds[c] = 0 /\ declineRefunds[c] = 0
         /\ \E h \in Handlers : hd[h].kind = "accept" /\ hd[h].c = c /\ Applied(h))
            => atkDelta[c] + defDelta[c] = 0

\* the gold of all guilds together
totalGold(goldOf) == goldOf[1] + goldOf[2] + goldOf[3]

\* C29: every step that applies the results of a battle, a counter-attack or a
\* free revenge credits the winner what it debits from the loser: the gold of
\* all guilds together is the same before and after.
C29_TransfersConserveGold ==
    [][(\E h \in Handlers : hd[h].pc = "apply" /\ hd'[h].pc = "record")
          => totalGold(gold') = totalGold(gold)]_vars

\* C30: what the /collect commands of a guild have credited since the start is
\* at most its hourly rates times the time that has passed: no minute is paid
\* twice.
C30_NoIntervalCreditedTwice ==
    LET rates == calculateRates(GuildRow(Prestiger))
    IN  /\ (gold[Prestiger] - InitGold[Prestiger]) * 60 <= rates.goldPerHour * now
        /\ (xp[Prestiger] - InitXp[Prestiger]) * 60 <= rates.xpPerHour * now

\* C31: a flush whose persistence step failed leaves nothing of its delta
\* persisted: with flushes that never overlap, once they have all returned the
\* gold and xp persisted for a session do not exceed what the session
\* accumulated, so a delta is credited once however often its flush failed.
C31_FailedFlushCreditedOnce ==
    FlushesReturned =>
        \A s \in Sessions :
            /\ sess[s].sessionGold - persisted[s].gold >= 0
            /\ sess[s].sessionXp - persisted[s].xp >= 0

\* C32: with a non-zero global cooldown, a battle of an attacker who has
\* battled before is recorded no sooner than the cooldown after the
\* attacker's previous battle, however the battle was initiated.
C32_CooldownBetweenBattles ==
    [][\A h \in Handlers :
          LET atk == hd[hd[h].c].user
          IN  (hd[h].pc = "cooldown" /\ hd'[h].pc = "reply" /\ last_battle_at[atk] # -1)
                  => now - last_battle_at[atk] >= globalCooldown]_vars

\* C33: whatever purchases of prestige upgrades and prestige resets run
\* beside each other, no guild's prestige_points is negative.
C33_PrestigePointsNeverNegative == \A g \in Guilds : prestige_points[g] >= 0

\* C34: a click on Free Revenge starts a revenge only under the result of a
\* consent-tier battle (power ratio >= 5) whose attacker was the stronger, only
\* for that battle's defender and only while the five-minute window is open;
\* any other click is rejected and changes no table, and a rejected handler
\* takes no further step.
C34_FreeRevengeOnlyWhenValid ==
    [][\A h \in Handlers :
          /\ (hd[h].kind = "revenge" /\ hd[h].rejected) => hd'[h] = hd[h]
          /\ (hd[h].kind = "free" /\ hd'[h].kind = "revenge") =>
                LET c == hd'[h].origin
                IN  IF hd'[h].rejected
                    THEN UNCHANGED tables
                    ELSE /\ hd[c].kind = "battle" /\ hd[c].type = "consent"
                         /\ calculatePower(hd[c].user, xp) > calculatePower(hd[c].target, xp)
                         /\ hd'[h].user = hd[c].target
                         /\ ~revengeExpired[c]]_vars

\* the defender's click after the window has closed was rejected, and a click
\* before it was executed
C34_LateClickRejected ==
    \E h, k \in Handlers :
        /\ hd[h].kind = "revenge" /\ hd[h].rejected
        /\ hd[h].user = hd[hd[h].origin].target
        /\ revengeExpired[hd[h].origin]
        /\ hd[k].kind = "revenge" /\ ~hd[k].rejected /\ hd[k].pc = "done"

\* a /collect handler is between two of its database calls
Collecting == \E k \in Collects : cl[k].pc \in {"write", "level"}

\* C35: once every operation that was started has completed, the stored level
\* of each guild is the largest L with getTotalXpForLevel(L) <= xp.
C35_LevelMatchesXp ==
    (Quiescent /\ ~Collecting) =>
        \A g \in Guilds :
            /\ getTotalXpForLevel(level[g]) <= xp[g]
            /\ xp[g] < getTotalXpForLevel(level[g] + 1)

\* C36: without a prestige reset, no step decreases a guild's xp or level.
C36_XpAndLevelNeverDecrease ==
    [][\A g \in Guilds : xp'[g] >= xp[g] /\ level'[g] >= level[g]]_vars

\* C37: whatever purchases run beside each other, the owned level of an
\* upgrade with a max_level never exceeds it.
C37_LevelWithinMaxLevel ==
    \A g \in Guilds : guild_scouts_level[g] <= GUILD_SCOUTS.max_level

C39_LevelUpResult ==
    \A n \in LevelCalls :
        levelCall[n].returned =>
            LET c == levelCall[n]
            IN  /\ c.newLevel >= c.guild.level
                /\ c.guild.xp < getTotalXpForLevel(c.newLevel + 1)
                /\ c.levelsGained = c.newLevel - c.guild.level
                /\ c.wrote <=> c.levelsGained >= 1
                /\ c.leveledUp <=> c.wrote
                /\ (n = MaxLevelCalls \/ ~levelCall[n + 1].returned) => level[LevelGuild] = c.newLevel
                /\ n > 1 => (c.levelsGained = 0 /\ ~c.wrote /\ c.guild.xp = levelCall[1].guild.xp)

\* the first call gained several levels at once and wrote, the second wrote
\* nothing
C39_SeveralLevelsThenNone ==
    /\ levelCall[1].returned /\ levelCall[1].levelsGained >= 2 /\ levelCall[1].wrote
    /\ levelCall[2].returned /\ ~levelCall[2].wrote

\* C40: the time calculateIdleEarnings uses lies between 0 and maxIdleHours,
\* the gold and xp it returns are not negative, and wasCapped tells whether
\* the time used differs from the elapsed time.
C40_ElapsedTimeClamped ==
    idleCall.returned =>
        /\ idleCall.cappedMinutes >= 0
        /\ idleCall.cappedMinutes <= idleCall.maxIdleHours * 60
        /\ idleCall.goldEarned >= 0 /\ idleCall.xpEarned >= 0
        /\ idleCall.wasCapped <=> (idleCall.cappedMinutes # idleCall.minutesElapsed)
====
